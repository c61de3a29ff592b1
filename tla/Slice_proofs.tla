---------------------------- MODULE Slice_proofs ----------------------------
(***************************************************************************)
(* Proofs about the two halves of a Usable Slice.                          *)
(*                                                                         *)
(* SliceAuthority, for any number of processes, transactions, Starts,      *)
(* Stops and crashes: two deliveries never write to one destination, a     *)
(* one-shot intent delivers once, and a Stop wins over every Start that    *)
(* was issued before it.  The invariant says who holds what (the lease and *)
(* the program counters, the owners of devices, the writing transaction of *)
(* a completion) and what the two numbers a reservation has read are worth *)
(* after the Stops that came meanwhile.                                    *)
(*                                                                         *)
(* SliceTransfer, for every plan and every bound that satisfies            *)
(* SliceTransferBounds: the journal and the receipt tell the truth after   *)
(* every crash (RecordsTrue), and what stands at a final path is never     *)
(* changed or removed by the program (FinalsOnlyAppear).  The invariant    *)
(* has two layers.  PathsOK, PlaceOK and CompletionOK say what holds       *)
(* whatever somebody else does at the destination.  As long as nobody did  *)
(* anything (Undisturbed), the journal also tells what is on the disk;     *)
(* that is why no crash makes a delivery fail.                             *)
(***************************************************************************)
EXTENDS SliceAuthority, SliceTransfer, FiniteSetTheorems, WellFoundedInduction, TLAPS

-----------------------------------------------------------------------------
(* SliceAuthority                                                          *)

SaDevices == {SaDevice(t) : t \in SaTxs}
SaStates == SaResumable \cup SaTerminal \cup {"ready"}
SaPcs == {"idle", "insert", "acquire", "commit", "interrupted", "again"} \cup Holding
\* From the reading of the reservation to the claim that compares it.
Reserving == {"insert", "acquire", "preflight", "claim"}

TxRow == [state : SaStates, stop : BOOLEAN, serial : Nat, ack : Nat, consumed : BOOLEAN, head : 0..SaHead]
OwnerRow == [tx : SaTxs \cup {"none"}, attempt : SaProcs \cup {"none"}]
Reservation == [state : SaStates, serial : Nat, ack : Nat]
ProcRow == [pc : SaPcs, tx : SaTxs \cup {"none"}, res : Reservation \cup {<<>>},
            pre : BOOLEAN, fresh : BOOLEAN, head : 0..SaHead]
HistRow == [stop : {"none", "asked", "acked"}, runs : 0..2]

\* The shape of every row.
RowsOK ==
  /\ saWorld \in SaWorlds
  /\ saTx \in [SaTxs -> TxRow]
  /\ saOwner \in [SaDevices -> OwnerRow]
  /\ saLease \in [SaDevices -> SaProcs \cup {"none"}]
  /\ saProc \in [SaProcs -> ProcRow]
  /\ saHist \in [SaTxs -> HistRow]
  /\ saLeft \in [starts : Nat, stops : Nat, crashes : Nat]

\* A process that is under way has a transaction, and until its claim the reservation.
UnderWay ==
  \A p \in SaProcs : /\ saProc[p].pc # "idle" => T(p) \in SaTxs
                     /\ saProc[p].pc \in Reserving => saProc[p].res \in Reservation

\* The lease and the program counters agree.
LeaseHeld ==
  /\ \A p \in SaProcs : saProc[p].pc \in Holding => saLease[D(p)] = p
  /\ \A d \in SaDevices : saLease[d] # "none" =>
       saProc[saLease[d]].pc \in Holding /\ D(saLease[d]) = d

\* Owners are transactions for that device, and the claims of two owners do not overlap.
OwnersApart ==
  \A d \in SaDevices : saOwner[d].tx # "none" =>
    /\ SaDevice(saOwner[d].tx) = d
    /\ \A e \in SaDevices \ {d} : saOwner[e].tx # "none" => ~ClaimsOverlap(saOwner[d].tx, saOwner[e].tx)

\* A delivery has the published attempt and the head of its journal.
DeliveryCurrent ==
  \A p \in SaProcs : saProc[p].pc \in Delivering => Current(p) /\ saProc[p].head = saTx[T(p)].head

\* The completion that has released its lease still has the database to itself: what it
\* checked holds, and nobody delivers to its destination.
CommitAlone ==
  \A p \in SaProcs : saProc[p].pc = "commit" =>
    /\ saTx[T(p)].state = "verifying" /\ ~saTx[T(p)].stop /\ saOwner[D(p)].tx = T(p)
    /\ \A q \in SaProcs \ {p} : saProc[q].pc # "commit" /\ ~(saProc[q].pc \in Delivering /\ D(q) = D(p))

\* The intent is spent by the delivery that begins.
FatSpent ==
  \A t \in SaTxs : SessionOnly(t) => saHist[t].runs <= IF saTx[t].consumed THEN 1 ELSE 0

\* A Stop is on the row until a Start takes over, and not acknowledged before it is answered.
StopOnRow ==
  \A t \in SaTxs : /\ saTx[t].ack <= saTx[t].serial
                   /\ saHist[t].stop # "none" => saTx[t].stop
                   /\ saHist[t].stop = "asked" => saTx[t].ack < saTx[t].serial

\* A reservation that has not seen the latest Stop acknowledged cannot look as if it had.
FreshReservation ==
  \A p \in SaProcs : saProc[p].pc \in Reserving =>
    LET res == saProc[p].res  row == saTx[T(p)]
    IN /\ res.ack <= res.serial /\ res.serial <= row.serial
       /\ ~saProc[p].fresh => res.ack < res.serial \/ res.serial < row.serial

SaInv ==
  /\ RowsOK /\ UnderWay /\ LeaseHeld /\ OwnersApart /\ DeliveryCurrent /\ CommitAlone
  /\ FatSpent /\ StopOnRow /\ FreshReservation

-----------------------------------------------------------------------------
(* Shapes.  Most steps change the row of one transaction, one device and   *)
(* one process; the lemmas below say once what such a step keeps.          *)

OthersStay(p) == \A q \in SaProcs \ {p} : saProc'[q] = saProc[q]

\* The names are names: of no process and of no transaction is "none".
LEMMA Names ==
  ASSUME RowsOK
  PROVE  /\ "none" \notin SaProcs /\ "none" \notin SaTxs /\ SaHead \in Nat \ {0}
         /\ \A t \in SaTxs : SaDevice(t) \in SaDevices
BY SliceAuthorityNames DEF RowsOK, SaTxs, SaDevice, SaDevices

\* A step of a process along its program keeps the shape of its row.
LEMMA GoTyped ==
  ASSUME RowsOK, UnderWay, NEW p \in SaProcs, NEW c \in SaPcs, SaGo(p, c),
         saProc[p].pc # "idle", c \in Reserving => saProc[p].pc \in Reserving
  PROVE  /\ saProc' \in [SaProcs -> ProcRow]
         /\ saProc'[p] = [saProc[p] EXCEPT !.pc = c] /\ OthersStay(p)
         /\ \A q \in SaProcs : /\ saProc'[q].pc # "idle" => saProc'[q].tx \in SaTxs
                               /\ saProc'[q].pc \in Reserving => saProc'[q].res \in Reservation
<1>1. saProc[p] \in ProcRow
  BY DEF RowsOK
<1>2. [saProc[p] EXCEPT !.pc = c] \in ProcRow
  BY <1>1 DEF ProcRow
<1>3. saProc' = [saProc EXCEPT ![p] = [saProc[p] EXCEPT !.pc = c]]
  BY DEF SaGo
<1>4. saProc' \in [SaProcs -> ProcRow] /\ saProc'[p] = [saProc[p] EXCEPT !.pc = c] /\ OthersStay(p)
  BY <1>2, <1>3 DEF RowsOK, OthersStay
<1>5. saProc'[p].pc = c /\ saProc'[p].tx = saProc[p].tx /\ saProc'[p].res = saProc[p].res
  BY <1>1, <1>4 DEF ProcRow
<1>6. ASSUME NEW q \in SaProcs
      PROVE  /\ saProc'[q].pc # "idle" => saProc'[q].tx \in SaTxs
             /\ saProc'[q].pc \in Reserving => saProc'[q].res \in Reservation
  <2>1. CASE q = p
    BY <1>5, <2>1 DEF UnderWay, T
  <2>2. CASE q # p
    BY <1>4, <2>2 DEF UnderWay, T, OthersStay
  <2> QED BY <2>1, <2>2
<1> QED BY <1>4, <1>6

\* So does its end.
LEMMA EndTyped ==
  ASSUME RowsOK, UnderWay, NEW p \in SaProcs, SaEnd(p)
  PROVE  /\ saProc' \in [SaProcs -> ProcRow]
         /\ saProc'[p] = SaIdle /\ OthersStay(p)
         /\ \A q \in SaProcs : /\ saProc'[q].pc # "idle" => saProc'[q].tx \in SaTxs
                               /\ saProc'[q].pc \in Reserving => saProc'[q].res \in Reservation
<1>1. SaIdle \in ProcRow
  BY Names, SMTT(20) DEF SaIdle, ProcRow, SaPcs
<1>2. saProc' \in [SaProcs -> ProcRow] /\ saProc'[p] = SaIdle /\ OthersStay(p)
  BY <1>1 DEF RowsOK, OthersStay, SaEnd
<1>3. saProc'[p].pc = "idle"
  BY <1>2 DEF SaIdle
<1>4. ASSUME NEW q \in SaProcs
      PROVE  /\ saProc'[q].pc # "idle" => saProc'[q].tx \in SaTxs
             /\ saProc'[q].pc \in Reserving => saProc'[q].res \in Reservation
  <2>1. CASE q = p
    BY <1>3, <2>1 DEF Reserving
  <2>2. CASE q # p
    BY <1>2, <2>2 DEF UnderWay, T, OthersStay
  <2> QED BY <2>1, <2>2
<1> QED BY <1>2, <1>4

\* A row that was asked to stop, or acknowledges what was asked, is a row.
LEMMA RowTyped ==
  ASSUME NEW row \in TxRow
  PROVE  /\ Asked(row) \in TxRow /\ Acknowledged(row) \in TxRow
         /\ \A s \in SaStates : [row EXCEPT !.state = s] \in TxRow
<1>1. Asked(row) \in TxRow
  <2>1. row.serial + 1 \in Nat
    BY DEF TxRow
  <2>2. TRUE \in BOOLEAN
    OBVIOUS
  <2> QED BY <2>1, <2>2, Zenon DEF TxRow, Asked
<1>2. Acknowledged(row) \in TxRow
  BY DEF TxRow, Acknowledged, SaStates, SaResumable, SaRunning
<1>3. \A s \in SaStates : [row EXCEPT !.state = s] \in TxRow
  BY DEF TxRow
<1> QED BY <1>1, <1>2, <1>3

\* What an outcome does to the rows: it is current, and the row stops or takes the outcome.
LEMMA OutcomeEffect ==
  ASSUME RowsOK, UnderWay, NEW p \in SaProcs, NEW s \in SaStates, Outcome(p, s), saProc[p].pc # "idle"
  PROVE  /\ saTx' \in [SaTxs -> TxRow] /\ saHist' \in [SaTxs -> HistRow]
         /\ Writable /\ Current(p)
         /\ \A t \in SaTxs \ {T(p)} : saTx'[t] = saTx[t] /\ saHist'[t] = saHist[t]
         /\ saHist'[T(p)].runs = saHist[T(p)].runs
         /\ \/ /\ s = "stopped" \/ (saTx[T(p)].stop /\ s # "failed")
               /\ saTx'[T(p)] = Acknowledged(saTx[T(p)])
               /\ saHist'[T(p)].stop = IF saHist[T(p)].stop = "asked" THEN "acked" ELSE saHist[T(p)].stop
            \/ /\ s # "stopped" /\ (saTx[T(p)].stop => s = "failed")
               /\ saTx'[T(p)] = [saTx[T(p)] EXCEPT !.state = s]
               /\ saHist' = saHist
<1> DEFINE t == T(p)
<1>1. t \in SaTxs /\ saTx[t] \in TxRow /\ saHist[t] \in HistRow
  BY DEF UnderWay, RowsOK
<1>2. Acknowledged(saTx[t]) \in TxRow /\ [saTx[t] EXCEPT !.state = s] \in TxRow
  BY <1>1, RowTyped
<1>3. DEFINE h == [saHist[t] EXCEPT !.stop = IF saHist[t].stop = "asked" THEN "acked" ELSE saHist[t].stop]
<1>4. /\ h \in HistRow /\ h.runs = saHist[t].runs
      /\ h.stop = IF saHist[t].stop = "asked" THEN "acked" ELSE saHist[t].stop
  BY <1>1 DEF HistRow
<1>5. HistAck(t) = [saHist EXCEPT ![t] = h]
  BY DEF HistAck
<1>6. Writable /\ Current(p)
  BY DEF Outcome
<1>7. CASE s = "stopped" \/ (saTx[t].stop /\ s # "failed")
  <2>1. saTx' = [saTx EXCEPT ![t] = Acknowledged(saTx[t])] /\ saHist' = HistAck(t)
    BY <1>7 DEF Outcome
  <2> HIDE DEF h
  <2> QED BY <1>1, <1>2, <1>4, <1>5, <1>6, <1>7, <2>1 DEF RowsOK
<1>8. CASE ~(s = "stopped" \/ (saTx[t].stop /\ s # "failed"))
  <2>1. saTx' = [saTx EXCEPT ![t] = [saTx[t] EXCEPT !.state = s]] /\ saHist' = saHist
    BY <1>8 DEF Outcome
  <2> QED BY <1>1, <1>2, <1>6, <1>8, <2>1 DEF RowsOK
<1> QED BY <1>7, <1>8

-----------------------------------------------------------------------------
(* Every step keeps the shape of the rows.                                 *)

\* The transactions and the devices are those of the world, which stays.
LEMMA SameWorld ==
  ASSUME saWorld' = saWorld
  PROVE  /\ SaTxs' = SaTxs /\ SaDevices' = SaDevices
         /\ \A t \in SaTxs : SaDevice(t)' = SaDevice(t) /\ SessionOnly(t)' = SessionOnly(t)
         /\ \A t, u \in SaTxs : ClaimsOverlap(t, u)' = ClaimsOverlap(t, u)
BY DEF SaTxs, SaDevice, SaDevices, SessionOnly, ClaimsOverlap

\* What a step has to keep for the rows to keep their shape.
Shaped ==
  /\ saWorld' = saWorld
  /\ saTx' \in [SaTxs -> TxRow]
  /\ saOwner' \in [SaDevices -> OwnerRow]
  /\ saLease' \in [SaDevices -> SaProcs \cup {"none"}]
  /\ saProc' \in [SaProcs -> ProcRow]
  /\ saHist' \in [SaTxs -> HistRow]
  /\ saLeft' \in [starts : Nat, stops : Nat, crashes : Nat]
  /\ \A q \in SaProcs : /\ saProc'[q].pc # "idle" => saProc'[q].tx \in SaTxs
                        /\ saProc'[q].pc \in Reserving => saProc'[q].res \in Reservation

\* A step of that shape keeps the rows and the processes under way well typed.
LEMMA ShapedKeeps ==
  ASSUME RowsOK, Shaped
  PROVE  RowsOK' /\ UnderWay'
<1>1. SaTxs' = SaTxs /\ SaDevices' = SaDevices
  BY SameWorld DEF Shaped
<1>2. OwnerRow' = OwnerRow /\ ProcRow' = ProcRow
  BY <1>1 DEF OwnerRow, ProcRow
<1>3. RowsOK'
  BY <1>1, <1>2 DEF RowsOK, Shaped, TxRow, HistRow
<1>4. UnderWay'
  BY <1>1 DEF Shaped, UnderWay, T
<1> QED BY <1>3, <1>4

\* Giving the lease back keeps its shape.
LEMMA ReleaseTyped ==
  ASSUME RowsOK, NEW p \in SaProcs, T(p) \in SaTxs, Release(p)
  PROVE  /\ saLease' \in [SaDevices -> SaProcs \cup {"none"}]
         /\ saLease'[D(p)] = "none"
         /\ \A d \in SaDevices \ {D(p)} : saLease'[d] = saLease[d]
<1>1. D(p) \in SaDevices
  BY Names DEF D
<1> QED BY <1>1 DEF Release, RowsOK

\* A bound that is spent is still a number.
LEMMA LeftTyped ==
  ASSUME RowsOK
  PROVE  /\ saLeft.starts > 0 => [saLeft EXCEPT !.starts = @ - 1] \in [starts : Nat, stops : Nat, crashes : Nat]
         /\ saLeft.stops > 0 => [saLeft EXCEPT !.stops = @ - 1] \in [starts : Nat, stops : Nat, crashes : Nat]
         /\ saLeft.crashes > 0 => [saLeft EXCEPT !.crashes = @ - 1] \in [starts : Nat, stops : Nat, crashes : Nat]
         /\ saLeft.crashes > 0 => [saLeft EXCEPT !.crashes = @ - 1] # saLeft
<1>1. saLeft \in [starts : Nat, stops : Nat, crashes : Nat]
  BY DEF RowsOK
<1>2. /\ saLeft.starts > 0 => saLeft.starts - 1 \in Nat
      /\ saLeft.stops > 0 => saLeft.stops - 1 \in Nat
      /\ saLeft.crashes > 0 => saLeft.crashes - 1 \in Nat /\ saLeft.crashes - 1 # saLeft.crashes
  BY <1>1
<1>3. [saLeft EXCEPT !.crashes = @ - 1].crashes = saLeft.crashes - 1
  BY <1>1
<1> QED BY <1>1, <1>2, <1>3

\* A refused or interrupted Start changes at most the row of its transaction.
LEMMA HistAckTyped ==
  ASSUME RowsOK, NEW t \in SaTxs
  PROVE  /\ HistAck(t) \in [SaTxs -> HistRow]
         /\ \A u \in SaTxs \ {t} : HistAck(t)[u] = saHist[u]
         /\ HistAck(t)[t].runs = saHist[t].runs
         /\ HistAck(t)[t].stop = IF saHist[t].stop = "asked" THEN "acked" ELSE saHist[t].stop
<1> DEFINE h == [saHist[t] EXCEPT !.stop = IF saHist[t].stop = "asked" THEN "acked" ELSE saHist[t].stop]
<1>1. saHist[t] \in HistRow
  BY DEF RowsOK
<1>2. /\ h \in HistRow /\ h.runs = saHist[t].runs
      /\ h.stop = IF saHist[t].stop = "asked" THEN "acked" ELSE saHist[t].stop
  BY <1>1 DEF HistRow
<1>3. HistAck(t) = [saHist EXCEPT ![t] = h]
  BY DEF HistAck
<1> HIDE DEF h
<1> QED BY <1>2, <1>3 DEF RowsOK

-----------------------------------------------------------------------------
(* What the steps of a process do, row by row.                             *)

\* The lease follows the program counter of p: kept or not held, given back, taken.
LeaseStep(p) ==
  \/ /\ saLease' = saLease
     /\ saProc'[p].pc \in Holding <=> saProc[p].pc \in Holding
     /\ saProc[p].pc \in Holding => saProc'[p].tx = T(p)
  \/ /\ saProc[p].pc \in Holding /\ saProc'[p].pc \notin Holding
     /\ saLease'[D(p)] = "none" /\ \A d \in SaDevices \ {D(p)} : saLease'[d] = saLease[d]
  \/ /\ saProc[p].pc \notin Holding /\ saProc'[p].pc \in Holding
     /\ saProc'[p].tx = T(p) /\ T(p) \in SaTxs
     /\ saLease[D(p)] = "none" /\ saLease' = [saLease EXCEPT ![D(p)] = p]


\* What moving on to another program counter does, field by field.
LEMMA GoEffect ==
  ASSUME RowsOK, UnderWay, NEW p \in SaProcs, NEW c \in SaPcs, SaGo(p, c),
         saProc[p].pc # "idle", c \in Reserving => saProc[p].pc \in Reserving
  PROVE  /\ saProc' \in [SaProcs -> ProcRow] /\ OthersStay(p)
         /\ saProc'[p].pc = c /\ saProc'[p].tx = saProc[p].tx /\ saProc'[p].res = saProc[p].res
         /\ saProc'[p].pre = saProc[p].pre /\ saProc'[p].fresh = saProc[p].fresh /\ saProc'[p].head = saProc[p].head
         /\ \A q \in SaProcs : /\ saProc'[q].pc # "idle" => saProc'[q].tx \in SaTxs
                               /\ saProc'[q].pc \in Reserving => saProc'[q].res \in Reservation
<1>1. saProc[p] \in ProcRow
  BY DEF RowsOK
<1>2. saProc'[p] = [saProc[p] EXCEPT !.pc = c]
  BY GoTyped
<1>3. /\ saProc'[p].pc = c /\ saProc'[p].tx = saProc[p].tx /\ saProc'[p].res = saProc[p].res
      /\ saProc'[p].pre = saProc[p].pre /\ saProc'[p].fresh = saProc[p].fresh /\ saProc'[p].head = saProc[p].head
  BY <1>1, <1>2 DEF ProcRow
<1> QED BY <1>3, GoTyped

\* What ending does: the process is idle and the others stay.
LEMMA EndEffect ==
  ASSUME RowsOK, UnderWay, NEW p \in SaProcs, SaEnd(p)
  PROVE  /\ saProc' \in [SaProcs -> ProcRow] /\ OthersStay(p) /\ saProc'[p].pc = "idle"
         /\ \A q \in SaProcs : /\ saProc'[q].pc # "idle" => saProc'[q].tx \in SaTxs
                               /\ saProc'[q].pc \in Reserving => saProc'[q].res \in Reservation
BY EndTyped DEF SaIdle

\* Where a process that moves may be, as far as the rows are concerned.
Onward(p) ==
  \/ saProc'[p].pc = "idle"
  \/ /\ saProc'[p].tx = saProc[p].tx /\ saProc'[p].res = saProc[p].res
     /\ saProc'[p].fresh = saProc[p].fresh /\ saProc'[p].head = saProc[p].head
     /\ saProc'[p].pc \in Reserving => saProc[p].pc \in Reserving
     /\ saProc'[p].pc \in Delivering => saProc[p].pc \in Delivering

\* The steps that touch no durable row.
LEMMA MoveEffect ==
  ASSUME SaInv, NEW p \in SaProcs,
         \/ AcquireLease(p) \/ Preflight(p) \/ ClaimRefused(p) \/ CheckDestination(p)
         \/ CompleteRelease(p) \/ Unexpected(p) \/ InterruptStart(p) \/ SaCrash(p)
  PROVE  /\ Shaped /\ OthersStay(p) /\ LeaseStep(p) /\ Onward(p)
         /\ saTx' = saTx /\ saOwner' = saOwner /\ saHist' = saHist
<1> USE DEF SaInv
<1>n. saProc[p].pc # "idle" /\ T(p) \in SaTxs
  BY DEF UnderWay, AcquireLease, Preflight, ClaimRefused, CheckDestination, CompleteRelease,
         Unexpected, InterruptStart, SaCrash
<1>g. ASSUME NEW c \in SaPcs, SaGo(p, c), c \in Reserving => saProc[p].pc \in Reserving,
             c \in Delivering => saProc[p].pc \in Delivering
      PROVE  /\ saProc' \in [SaProcs -> ProcRow] /\ OthersStay(p) /\ Onward(p)
             /\ saProc'[p].pc = c /\ saProc'[p].tx = T(p)
             /\ \A q \in SaProcs : /\ saProc'[q].pc # "idle" => saProc'[q].tx \in SaTxs
                                   /\ saProc'[q].pc \in Reserving => saProc'[q].res \in Reservation
  BY <1>n, <1>g, GoEffect DEF Onward, T
<1>e. ASSUME SaEnd(p)
      PROVE  /\ saProc' \in [SaProcs -> ProcRow] /\ OthersStay(p) /\ Onward(p) /\ saProc'[p].pc = "idle"
             /\ \A q \in SaProcs : /\ saProc'[q].pc # "idle" => saProc'[q].tx \in SaTxs
                                   /\ saProc'[q].pc \in Reserving => saProc'[q].res \in Reservation
  BY <1>e, EndEffect DEF Onward
<1>1. CASE AcquireLease(p)
  <2>1. CASE saLease[D(p)] = "none" /\ saTx[T(p)].state # "complete"
    <3>1. saLease' = [saLease EXCEPT ![D(p)] = p] /\ SaGo(p, "preflight") /\ saProc[p].pc = "acquire"
      BY <1>1, <2>1 DEF AcquireLease
    <3>2. "preflight" \in SaPcs /\ "preflight" \in Reserving /\ "preflight" \notin Delivering
          /\ "preflight" \in Holding /\ "acquire" \in Reserving /\ "acquire" \notin Holding
      BY DEF SaPcs, Holding, Reserving, Delivering
    <3>3. saLease' \in [SaDevices -> SaProcs \cup {"none"}]
      BY <3>1 DEF RowsOK
    <3>4. saProc'[p].pc = "preflight" /\ saProc'[p].tx = T(p)
      BY <1>g, <3>1, <3>2
    <3>5. LeaseStep(p)
      BY <1>n, <2>1, <3>1, <3>2, <3>4 DEF LeaseStep
    <3> QED BY <1>1, <1>g, <3>1, <3>2, <3>3, <3>5 DEF AcquireLease, Shaped, RowsOK
  <2>2. CASE ~(saLease[D(p)] = "none" /\ saTx[T(p)].state # "complete")
    <3>1. saLease' = saLease /\ SaEnd(p) /\ saProc[p].pc = "acquire"
      BY <1>1, <2>2 DEF AcquireLease
    <3>2. LeaseStep(p)
      BY <1>e, <3>1 DEF LeaseStep, Holding
    <3> QED BY <1>1, <1>e, <3>1, <3>2 DEF AcquireLease, Shaped, RowsOK
  <2> QED BY <2>1, <2>2
<1>2. CASE Preflight(p) \/ CheckDestination(p) \/ Unexpected(p)
  <2>1. PICK c \in {"claim", "activate", "closing"} :
          /\ SaGo(p, c) /\ saProc[p].pc \in Holding
          /\ c = "claim" => saProc[p].pc = "preflight"
          /\ c # "claim" => saProc[p].pc \in {"check", "run"}
    BY <1>2 DEF Preflight, CheckDestination, Unexpected, Holding
  <2>2. /\ c \in SaPcs /\ c \in Holding
        /\ c \in Reserving => saProc[p].pc \in Reserving
        /\ c \in Delivering => saProc[p].pc \in Delivering
    BY <2>1 DEF SaPcs, Holding, Reserving, Delivering
  <2>3. UNCHANGED <<saWorld, saTx, saOwner, saLease, saHist, saLeft>>
    BY <1>2 DEF Preflight, CheckDestination, Unexpected
  <2>4. LeaseStep(p)
    BY <1>g, <2>1, <2>2, <2>3 DEF LeaseStep
  <2> QED BY <1>g, <2>1, <2>2, <2>3, <2>4 DEF Shaped, RowsOK
<1>3. CASE ClaimRefused(p)
  <2>1. Release(p) /\ SaEnd(p) /\ saProc[p].pc \in Holding
    BY <1>3 DEF ClaimRefused, Holding
  <2>2. LeaseStep(p)
    BY <1>e, <1>n, <2>1, ReleaseTyped DEF LeaseStep, Holding
  <2> QED BY <1>3, <1>e, <1>n, <2>1, <2>2, ReleaseTyped DEF ClaimRefused, Shaped, RowsOK
<1>4. CASE CompleteRelease(p)
  <2>1. Release(p) /\ SaGo(p, "commit") /\ saProc[p].pc = "run"
    BY <1>4 DEF CompleteRelease
  <2>2. "commit" \in SaPcs /\ "commit" \notin Holding /\ "commit" \notin Reserving
        /\ "commit" \notin Delivering /\ "run" \in Holding
    BY DEF SaPcs, Holding, Reserving, Delivering
  <2>3. LeaseStep(p)
    BY <1>g, <1>n, <2>1, <2>2, ReleaseTyped DEF LeaseStep
  <2> QED BY <1>4, <1>g, <1>n, <2>1, <2>2, <2>3, ReleaseTyped DEF CompleteRelease, Shaped, RowsOK
<1>5. CASE InterruptStart(p) \/ SaCrash(p)
  <2>1. saLease' \in [SaDevices -> SaProcs \cup {"none"}]
        /\ IF saProc[p].pc \in Holding
           THEN saLease'[D(p)] = "none" /\ \A d \in SaDevices \ {D(p)} : saLease'[d] = saLease[d]
           ELSE saLease' = saLease
    BY <1>5, <1>n, ReleaseTyped DEF InterruptStart, SaCrash, RowsOK
  <2>2. saLeft' \in [starts : Nat, stops : Nat, crashes : Nat] /\ UNCHANGED <<saWorld, saTx, saOwner, saHist>>
    BY <1>5, LeftTyped DEF InterruptStart, SaCrash
  <2>3. "interrupted" \in SaPcs /\ "interrupted" \notin Holding /\ "interrupted" \notin Reserving
        /\ "interrupted" \notin Delivering /\ "idle" \notin Holding
    BY DEF SaPcs, Holding, Reserving, Delivering
  <2>4. SaGo(p, "interrupted") \/ SaEnd(p)
    BY <1>5 DEF InterruptStart, SaCrash
  <2>5. saProc'[p].pc \notin Holding /\ Onward(p) /\ OthersStay(p)
    BY <1>e, <1>g, <2>3, <2>4
  <2>6. LeaseStep(p)
    BY <2>1, <2>5 DEF LeaseStep
  <2> QED BY <1>e, <1>g, <2>1, <2>2, <2>3, <2>4, <2>5, <2>6 DEF Shaped, RowsOK
<1> QED BY <1>1, <1>2, <1>3, <1>4, <1>5

\* The Stops of t are as before, or all of them are acknowledged.
Answers(t) ==
  /\ saTx'[t].serial = saTx[t].serial /\ saTx'[t].stop = saTx[t].stop
  /\ saTx'[t].consumed = saTx[t].consumed /\ saHist'[t].runs = saHist[t].runs
  /\ \/ saTx'[t].ack = saTx[t].ack /\ saHist'[t].stop = saHist[t].stop
     \/ /\ saTx'[t].ack = saTx[t].serial
        /\ saHist'[t].stop = IF saHist[t].stop = "asked" THEN "acked" ELSE saHist[t].stop

\* An outcome answers the Stop that was asked of the row, unless the attempt failed.
LEMMA OutcomeAnswers ==
  ASSUME RowsOK, UnderWay, NEW p \in SaProcs, NEW s \in SaStates, Outcome(p, s), saProc[p].pc # "idle"
  PROVE  /\ \A t \in SaTxs : Answers(t) /\ saTx'[t].head = saTx[t].head
         /\ saTx'[T(p)].state = IF s = "stopped" \/ (saTx[T(p)].stop /\ s # "failed") THEN "stopped" ELSE s
         /\ saTx[T(p)].stop /\ s # "failed" /\ saHist[T(p)].stop = "asked" => saHist'[T(p)].stop = "acked"
<1> DEFINE t == T(p)
<1>1. t \in SaTxs /\ saTx[t] \in TxRow /\ saHist[t] \in HistRow
  BY DEF UnderWay, RowsOK
<1>2. /\ Acknowledged(saTx[t]).state = "stopped" /\ Acknowledged(saTx[t]).ack = saTx[t].serial
      /\ Acknowledged(saTx[t]).serial = saTx[t].serial /\ Acknowledged(saTx[t]).stop = saTx[t].stop
      /\ Acknowledged(saTx[t]).consumed = saTx[t].consumed /\ Acknowledged(saTx[t]).head = saTx[t].head
  BY <1>1 DEF Acknowledged, TxRow
<1>3. LET r == [saTx[t] EXCEPT !.state = s]
      IN /\ r.state = s /\ r.ack = saTx[t].ack /\ r.serial = saTx[t].serial /\ r.stop = saTx[t].stop
         /\ r.consumed = saTx[t].consumed /\ r.head = saTx[t].head
  BY <1>1 DEF TxRow
<1>4. \A u \in SaTxs \ {t} : Answers(u) /\ saTx'[u].head = saTx[u].head
  BY OutcomeEffect DEF Answers
<1>5. Answers(t) /\ saTx'[t].head = saTx[t].head
  BY <1>2, <1>3, OutcomeEffect DEF Answers
<1>6. saTx'[t].state = IF s = "stopped" \/ (saTx[t].stop /\ s # "failed") THEN "stopped" ELSE s
  BY <1>2, <1>3, OutcomeEffect
<1>7. saTx[t].stop /\ s # "failed" /\ saHist[t].stop = "asked" => saHist'[t].stop = "acked"
  BY OutcomeEffect
<1> QED BY <1>4, <1>5, <1>6, <1>7

\* The steps of a delivery that record an outcome, and its close.
LEMMA DeliverEffect ==
  ASSUME SaInv, NEW p \in SaProcs, NEW o \in {"waiting", "failed"},
         \/ Activate(p) \/ RefuseDelivery(p, o) \/ StopDelivery(p) \/ WaitDelivery(p)
         \/ Verifying(p) \/ CloseDelivery(p)
  PROVE  /\ Shaped /\ OthersStay(p) /\ LeaseStep(p) /\ saOwner' = saOwner
         /\ saProc[p].pc \in Holding /\ T(p) \in SaTxs
         /\ \A t \in SaTxs : Answers(t) /\ saTx'[t].head = saTx[t].head
         /\ \A t \in SaTxs \ {T(p)} : saTx'[t] = saTx[t]
         /\ saTx' = saTx \/ (Writable /\ Current(p))
         /\ Onward(p)
         /\ saProc'[p].pc # "idle" => /\ saProc'[p].pc \in Delivering
                                      /\ Writable /\ Current(p) /\ saTx'[T(p)].state \in SaRunning
         /\ saProc[p].pc # "closing" /\ saTx[T(p)].stop /\ saHist[T(p)].stop = "asked"
              => saHist'[T(p)].stop = "acked" \/ saTx'[T(p)].state = "failed"
         /\ \A t \in SaTxs : saTx'[t].state # "complete" \/ saTx[t].state = "complete"
<1> USE DEF SaInv
<1>n. saProc[p].pc \in {"check", "activate", "run", "closing"} /\ T(p) \in SaTxs
  BY DEF UnderWay, Activate, RefuseDelivery, StopDelivery, WaitDelivery, Verifying, CloseDelivery
<1>h. saProc[p].pc \in Holding /\ saProc[p].pc \in Delivering /\ saProc[p].pc # "idle"
  BY <1>n DEF Holding, Delivering
<1>o. ASSUME NEW s \in {"transferring", "verifying", "waiting", "failed", "stopped"}, Outcome(p, s)
      PROVE  /\ saTx' \in [SaTxs -> TxRow] /\ saHist' \in [SaTxs -> HistRow] /\ Writable /\ Current(p)
             /\ \A t \in SaTxs : Answers(t) /\ saTx'[t].head = saTx[t].head
             /\ \A t \in SaTxs \ {T(p)} : saTx'[t] = saTx[t]
             /\ saTx'[T(p)].state = IF s = "stopped" \/ (saTx[T(p)].stop /\ s # "failed") THEN "stopped" ELSE s
             /\ saTx[T(p)].stop /\ saHist[T(p)].stop = "asked"
                  => saHist'[T(p)].stop = "acked" \/ saTx'[T(p)].state = "failed"
             /\ \A t \in SaTxs : saTx'[t].state # "complete" \/ saTx[t].state = "complete"
  <2>1. s \in SaStates
    BY DEF SaStates, SaResumable, SaRunning, SaTerminal
  <2>2. /\ saTx' \in [SaTxs -> TxRow] /\ saHist' \in [SaTxs -> HistRow] /\ Writable /\ Current(p)
        /\ \A t \in SaTxs \ {T(p)} : saTx'[t] = saTx[t]
    BY <1>h, <1>o, <2>1, OutcomeEffect
  <2>3. /\ \A t \in SaTxs : Answers(t) /\ saTx'[t].head = saTx[t].head
        /\ saTx'[T(p)].state = IF s = "stopped" \/ (saTx[T(p)].stop /\ s # "failed") THEN "stopped" ELSE s
        /\ saTx[T(p)].stop /\ s # "failed" /\ saHist[T(p)].stop = "asked" => saHist'[T(p)].stop = "acked"
    BY <1>h, <1>o, <2>1, OutcomeAnswers
  <2>4. saTx'[T(p)].state # "complete"
    BY <2>3
  <2> QED BY <1>n, <2>2, <2>3, <2>4
<1>e. ASSUME Release(p), SaEnd(p)
      PROVE  /\ saProc' \in [SaProcs -> ProcRow] /\ saLease' \in [SaDevices -> SaProcs \cup {"none"}]
             /\ OthersStay(p) /\ Onward(p) /\ LeaseStep(p) /\ saProc'[p].pc = "idle"
             /\ \A q \in SaProcs : /\ saProc'[q].pc # "idle" => saProc'[q].tx \in SaTxs
                                   /\ saProc'[q].pc \in Reserving => saProc'[q].res \in Reservation
  BY <1>e, <1>n, <1>h, EndEffect, ReleaseTyped DEF LeaseStep, Onward, Holding
<1>g. ASSUME NEW c \in {"run", "closing"}, SaGo(p, c) \/ (saProc' = saProc /\ c = "run" /\ saProc[p].pc = "run"),
             saLease' = saLease
      PROVE  /\ saProc' \in [SaProcs -> ProcRow] /\ saLease' \in [SaDevices -> SaProcs \cup {"none"}]
             /\ OthersStay(p) /\ Onward(p) /\ LeaseStep(p) /\ saProc'[p].pc \in Delivering
             /\ \A q \in SaProcs : /\ saProc'[q].pc # "idle" => saProc'[q].tx \in SaTxs
                                   /\ saProc'[q].pc \in Reserving => saProc'[q].res \in Reservation
  <2>1. c \in SaPcs /\ c \in Holding /\ c \notin Reserving /\ c \in Delivering
    BY DEF SaPcs, Holding, Reserving, Delivering
  <2>2. CASE SaGo(p, c)
    <3>1. /\ saProc' \in [SaProcs -> ProcRow] /\ OthersStay(p) /\ saProc'[p].pc = c
          /\ saProc'[p].tx = saProc[p].tx /\ saProc'[p].res = saProc[p].res
          /\ saProc'[p].fresh = saProc[p].fresh /\ saProc'[p].head = saProc[p].head
          /\ \A q \in SaProcs : /\ saProc'[q].pc # "idle" => saProc'[q].tx \in SaTxs
                                /\ saProc'[q].pc \in Reserving => saProc'[q].res \in Reservation
      BY <1>h, <2>1, <2>2, GoEffect
    <3> QED BY <1>g, <1>h, <2>1, <3>1 DEF Onward, LeaseStep, T, RowsOK
  <2>3. CASE saProc' = saProc /\ c = "run" /\ saProc[p].pc = "run"
    BY <1>g, <1>h, <2>1, <2>3 DEF Onward, LeaseStep, OthersStay, T, RowsOK, UnderWay
  <2> QED BY <1>g, <2>2, <2>3
<1>w. saWorld' = saWorld /\ saOwner' = saOwner /\ saLeft' = saLeft
  BY DEF Activate, RefuseDelivery, StopDelivery, WaitDelivery, Verifying, CloseDelivery
<1>r. saOwner \in [SaDevices -> OwnerRow] /\ saLeft \in [starts : Nat, stops : Nat, crashes : Nat]
      /\ saTx \in [SaTxs -> TxRow] /\ saHist \in [SaTxs -> HistRow]
  BY DEF RowsOK
<1>1. CASE \/ Activate(p) /\ saTx[T(p)].stop
           \/ RefuseDelivery(p, o) \/ StopDelivery(p)
           \/ WaitDelivery(p) /\ saTx[T(p)].stop
           \/ Verifying(p) /\ saTx[T(p)].stop
  <2>1. \E s \in {"transferring", "verifying", "waiting", "failed", "stopped"} : Outcome(p, s)
    BY <1>1 DEF Activate, RefuseDelivery, StopDelivery, WaitDelivery, Verifying
  <2>2. Release(p) /\ SaEnd(p)
    BY <1>1 DEF Activate, RefuseDelivery, StopDelivery, WaitDelivery, Verifying
  <2> QED BY <1>e, <1>h, <1>n, <1>o, <1>r, <1>w, <2>1, <2>2 DEF Shaped
<1>2. CASE \/ Activate(p) /\ ~saTx[T(p)].stop
           \/ WaitDelivery(p) /\ ~saTx[T(p)].stop
           \/ Verifying(p) /\ ~saTx[T(p)].stop
  <2>1. PICK s \in {"transferring", "verifying", "waiting"} : Outcome(p, s)
    BY <1>2 DEF Activate, WaitDelivery, Verifying
  <2>2. PICK c \in {"run", "closing"} :
          SaGo(p, c) \/ (saProc' = saProc /\ c = "run" /\ saProc[p].pc = "run")
    BY <1>2 DEF Activate, WaitDelivery, Verifying
  <2>3. saLease' = saLease /\ ~saTx[T(p)].stop
    BY <1>2 DEF Activate, WaitDelivery, Verifying
  <2>4. saTx'[T(p)].state \in SaRunning
    BY <1>o, <2>1, <2>3 DEF SaRunning
  <2> QED BY <1>g, <1>h, <1>n, <1>o, <1>r, <1>w, <2>1, <2>2, <2>3, <2>4 DEF Shaped
<1>3. CASE CloseDelivery(p)
  <2>1. Release(p) /\ SaEnd(p) /\ saProc[p].pc = "closing"
    BY <1>3 DEF CloseDelivery
  <2>2. CASE Outcome(p, "stopped")
    BY <1>e, <1>h, <1>n, <1>o, <1>r, <1>w, <2>1, <2>2 DEF Shaped
  <2>3. CASE saTx' = saTx /\ saHist' = saHist
    <3>1. \A t \in SaTxs : Answers(t) /\ saTx'[t].head = saTx[t].head
      BY <2>3 DEF Answers
    <3> QED BY <1>e, <1>h, <1>n, <1>r, <1>w, <2>1, <2>3, <3>1 DEF Shaped
  <2> QED BY <1>3, <2>2, <2>3 DEF CloseDelivery
<1> QED BY <1>1, <1>2, <1>3

-----------------------------------------------------------------------------
(* What such steps keep.                                                   *)

\* The other processes stay where they are; what they know of Stops may get old.
OthersKeep(p) ==
  \A q \in SaProcs \ {p} :
    /\ saProc'[q].pc = saProc[q].pc /\ saProc'[q].tx = saProc[q].tx
    /\ saProc'[q].res = saProc[q].res /\ saProc'[q].head = saProc[q].head
    /\ saProc'[q].fresh => saProc[q].fresh

\* Processes that stay as they are keep what the invariant says of them.
LEMMA OthersStayKeep ==
  ASSUME NEW p, OthersStay(p)
  PROVE  OthersKeep(p)
BY DEF OthersStay, OthersKeep

\* The lease goes with the program counter.
LEMMA LeaseKept ==
  ASSUME SaInv, Shaped, NEW p \in SaProcs, OthersKeep(p), LeaseStep(p)
  PROVE  LeaseHeld'
<1> USE DEF SaInv
<1>n. "none" \notin SaProcs /\ \A t \in SaTxs : SaDevice(t) \in SaDevices
  BY Names
<1>w. SaDevices' = SaDevices /\ SaTxs' = SaTxs /\ \A t \in SaTxs : SaDevice(t)' = SaDevice(t)
  BY SameWorld DEF Shaped
<1>d. \A q \in SaProcs : saProc[q].pc \in Holding => T(q) \in SaTxs /\ D(q) \in SaDevices
  BY <1>n DEF UnderWay, D, Holding
<1>1. \A q \in SaProcs \ {p} : saProc[q].pc \in Holding => D(q)' = D(q)
  BY <1>d DEF OthersKeep, D, T, SaDevice, Shaped
<1>t. \A d \in SaDevices : saLease[d] # "none" => saLease[d] \in SaProcs
  BY DEF RowsOK
<1>2. CASE /\ saLease' = saLease
           /\ saProc'[p].pc \in Holding <=> saProc[p].pc \in Holding
           /\ saProc[p].pc \in Holding => saProc'[p].tx = T(p)
  <2>1. saProc[p].pc \in Holding => D(p)' = D(p)
    BY <1>2, <1>d DEF D, T, SaDevice, Shaped
  <2>2. \A q \in SaProcs : saProc'[q].pc \in Holding => saLease'[D(q)'] = q
    BY <1>2, <1>1, <2>1 DEF LeaseHeld, OthersKeep
  <2>3. ASSUME NEW d \in SaDevices, saLease'[d] # "none"
        PROVE  saProc'[saLease'[d]].pc \in Holding /\ D(saLease[d])' = d
    BY <1>2, <1>1, <1>t, <2>1, <2>3 DEF LeaseHeld, OthersKeep
  <2> QED BY <1>2, <1>w, <2>2, <2>3 DEF LeaseHeld
<1>3. CASE /\ saProc[p].pc \in Holding /\ saProc'[p].pc \notin Holding
           /\ saLease'[D(p)] = "none" /\ \A d \in SaDevices \ {D(p)} : saLease'[d] = saLease[d]
  <2>1. ASSUME NEW q \in SaProcs, saProc'[q].pc \in Holding
        PROVE  saLease'[D(q)'] = q
    <3>1. q # p /\ saProc[q].pc \in Holding
      BY <1>3, <2>1 DEF OthersKeep
    <3>2. saLease[D(q)] = q /\ saLease[D(p)] = p /\ D(q)' = D(q)
      BY <1>1, <1>3, <3>1 DEF LeaseHeld
    <3> QED BY <1>3, <1>d, <3>1, <3>2
  <2>2. ASSUME NEW d \in SaDevices, saLease'[d] # "none"
        PROVE  saProc'[saLease'[d]].pc \in Holding /\ D(saLease[d])' = d /\ saLease'[d] = saLease[d]
    <3>1. d # D(p) /\ saLease'[d] = saLease[d] /\ saLease[d] \in SaProcs
      BY <1>3, <1>t, <2>2
    <3>2. saProc[saLease[d]].pc \in Holding /\ D(saLease[d]) = d
      BY <2>2, <3>1 DEF LeaseHeld
    <3> QED BY <1>1, <3>1, <3>2 DEF OthersKeep
  <2> QED BY <1>w, <2>1, <2>2 DEF LeaseHeld
<1>4. CASE /\ saProc[p].pc \notin Holding /\ saProc'[p].pc \in Holding
           /\ saProc'[p].tx = T(p) /\ T(p) \in SaTxs
           /\ saLease[D(p)] = "none" /\ saLease' = [saLease EXCEPT ![D(p)] = p]
  <2>1. D(p) \in SaDevices /\ D(p)' = D(p)
    BY <1>4, <1>n DEF D, T, SaDevice, Shaped
  <2>2. saLease'[D(p)] = p /\ \A d \in SaDevices \ {D(p)} : saLease'[d] = saLease[d]
    BY <1>4, <2>1 DEF RowsOK
  <2>3. ASSUME NEW q \in SaProcs, saProc'[q].pc \in Holding
        PROVE  saLease'[D(q)'] = q
    <3>1. CASE q = p
      BY <2>1, <2>2, <3>1
    <3>2. CASE q # p
      <4>1. saProc[q].pc \in Holding /\ D(q)' = D(q) /\ saLease[D(q)] = q
        BY <1>1, <2>3, <3>2 DEF OthersKeep, LeaseHeld
      <4> QED BY <1>4, <1>d, <1>n, <2>2, <4>1
    <3> QED BY <3>1, <3>2
  <2>4. ASSUME NEW d \in SaDevices, saLease'[d] # "none"
        PROVE  /\ saLease'[d] = IF d = D(p) THEN p ELSE saLease[d]
               /\ saProc'[saLease'[d]].pc \in Holding
               /\ d = D(p) => D(p)' = d
               /\ d # D(p) => D(saLease[d])' = d
    <3>1. CASE d = D(p)
      BY <1>4, <2>1, <2>2, <3>1
    <3>2. CASE d # D(p)
      <4>1. saLease'[d] = saLease[d] /\ saLease[d] \in SaProcs
        BY <1>t, <2>2, <2>4, <3>2
      <4>2. saProc[saLease[d]].pc \in Holding /\ D(saLease[d]) = d
        BY <2>4, <4>1 DEF LeaseHeld
      <4> QED BY <1>1, <1>4, <3>2, <4>1, <4>2 DEF OthersKeep
    <3> QED BY <3>1, <3>2
  <2> QED BY <1>w, <2>3, <2>4 DEF LeaseHeld
<1> QED BY <1>2, <1>3, <1>4 DEF LeaseStep

\* Owners that go, or only change their attempt, leave the others apart.
LEMMA OwnersKept ==
  ASSUME SaInv, Shaped, \A d \in SaDevices : saOwner'[d].tx \in {saOwner[d].tx, "none"}
  PROVE  OwnersApart'
<1> USE DEF SaInv
<1>w. SaDevices' = SaDevices /\ \A t, u \in SaTxs : SaDevice(t)' = SaDevice(t) /\ ClaimsOverlap(t, u)' = ClaimsOverlap(t, u)
  BY SameWorld DEF Shaped
<1>o. \A d \in SaDevices : saOwner[d].tx # "none" => saOwner[d].tx \in SaTxs
  BY DEF RowsOK, OwnerRow
<1>1. ASSUME NEW d \in SaDevices, saOwner'[d].tx # "none"
      PROVE  /\ SaDevice(saOwner[d].tx)' = d
             /\ \A e \in SaDevices \ {d} : saOwner'[e].tx # "none" =>
                  ~ClaimsOverlap(saOwner[d].tx, saOwner[e].tx)'
  <2>1. saOwner'[d].tx = saOwner[d].tx /\ saOwner[d].tx \in SaTxs
    BY <1>1, <1>o
  <2>2. SaDevice(saOwner[d].tx) = d
    BY <1>1, <2>1 DEF OwnersApart
  <2>3. \A e \in SaDevices \ {d} : saOwner'[e].tx # "none" =>
          /\ saOwner'[e].tx = saOwner[e].tx /\ saOwner[e].tx \in SaTxs
          /\ ~ClaimsOverlap(saOwner[d].tx, saOwner[e].tx)
    BY <1>1, <1>o, <2>1 DEF OwnersApart
  <2> QED BY <2>1, <2>2, <2>3 DEF SaDevice, ClaimsOverlap, Shaped
<1> QED BY <1>1, <1>w DEF OwnersApart, SaDevice, ClaimsOverlap

\* Nobody else delivers to the device of p.
AloneOn(p) == \A q \in SaProcs \ {p} : saProc[q].pc \in Delivering => D(q) # D(p)

\* Who holds the lease is alone.
LEMMA HolderAlone ==
  ASSUME SaInv, NEW p \in SaProcs, saProc[p].pc \in Holding
  PROVE  AloneOn(p)
BY DEF SaInv, LeaseHeld, AloneOn, Delivering, Holding

\* A step on the rows of its own device leaves the other deliveries current.
ActsAlone(p) ==
  /\ AloneOn(p) /\ OthersKeep(p) /\ T(p) \in SaTxs
  /\ \A t \in SaTxs \ {T(p)} : saTx'[t] = saTx[t]
  /\ \A d \in SaDevices \ {D(p)} : saOwner'[d] = saOwner[d]

\* What a delivery needs, after the step.
DeliversOn(p) ==
  /\ saProc'[p].tx = T(p) /\ saOwner'[D(p)] = [tx |-> T(p), attempt |-> p]
  /\ saTx'[T(p)].state \in SaRunning /\ saProc'[p].head = saTx'[T(p)].head

\* An attempt that delivers keeps the owner row and the fence head that name it
\* (the check of journal.check_current).
LEMMA DeliveryKept ==
  ASSUME SaInv, Shaped, NEW p \in SaProcs, ActsAlone(p),
         saProc'[p].pc \in Delivering => DeliversOn(p)
  PROVE  DeliveryCurrent'
<1> USE DEF SaInv
<1>d. \A t \in SaTxs : SaDevice(t) \in SaDevices /\ SaDevice(t)' = SaDevice(t)
  BY Names, SameWorld DEF Shaped
<1>1. ASSUME NEW q \in SaProcs, saProc'[q].pc \in Delivering
      PROVE  Current(q)' /\ saProc'[q].head = saTx'[saProc'[q].tx].head
  <2>1. CASE q = p
    <3>1. DeliversOn(p) /\ T(p) \in SaTxs /\ saProc'[p].tx = T(p)
      BY <1>1, <2>1 DEF ActsAlone, DeliversOn
    <3>2. D(p)' = D(p)
      BY <3>1 DEF D, T, SaDevice, Shaped
    <3> QED BY <2>1, <3>1, <3>2 DEF DeliversOn, Current, T
  <2>2. CASE q # p
    <3>1. /\ saProc[q].pc \in Delivering /\ saProc'[q].tx = T(q) /\ saProc'[q].head = saProc[q].head
          /\ D(q) # D(p)
      BY <1>1, <2>2 DEF ActsAlone, AloneOn, OthersKeep, T
    <3>2. Current(q) /\ saProc[q].head = saTx[T(q)].head /\ T(q) \in SaTxs
      BY <3>1 DEF DeliveryCurrent, UnderWay, Delivering
    <3>3. D(q) \in SaDevices /\ T(q) # T(p) /\ SaDevice(T(q)) = D(q)
      BY <1>d, <3>1, <3>2 DEF D
    <3>4. saOwner'[D(q)] = saOwner[D(q)] /\ saTx'[T(q)] = saTx[T(q)]
      BY <3>1, <3>2, <3>3 DEF ActsAlone
    <3>5. D(q)' = D(q)
      BY <3>1 DEF D, T, SaDevice, Shaped
    <3> QED BY <3>1, <3>2, <3>4, <3>5 DEF Current, T
  <2> QED BY <2>1, <2>2
<1> QED BY <1>1 DEF DeliveryCurrent, T

\* While no completion is under way, a step that starts none has none.
LEMMA CommitKept ==
  ASSUME SaInv, Writable, NEW p \in SaProcs, OthersKeep(p), saProc'[p].pc # "commit"
  PROVE  CommitAlone'
BY DEF Writable, OthersKeep, CommitAlone

\* A step that touches no row leaves a completion of another process what it checked.
LEMMA CommitUntouched ==
  ASSUME SaInv, Shaped, NEW p \in SaProcs, OthersKeep(p), Onward(p), saProc'[p].pc # "commit",
         saTx' = saTx, saOwner' = saOwner
  PROVE  CommitAlone'
<1> USE DEF SaInv
<1>1. ASSUME NEW q \in SaProcs, saProc'[q].pc = "commit"
      PROVE  /\ saTx'[saProc'[q].tx].state = "verifying" /\ ~saTx'[saProc'[q].tx].stop
             /\ saOwner'[D(q)'].tx = saProc'[q].tx
             /\ \A r \in SaProcs \ {q} : saProc'[r].pc # "commit" /\ ~(saProc'[r].pc \in Delivering /\ D(r)' = D(q)')
  <2>1. q # p /\ saProc[q].pc = "commit" /\ saProc'[q].tx = saProc[q].tx
    BY <1>1 DEF OthersKeep
  <2>2. /\ saTx[T(q)].state = "verifying" /\ ~saTx[T(q)].stop /\ saOwner[D(q)].tx = T(q)
        /\ \A r \in SaProcs \ {q} : saProc[r].pc # "commit" /\ ~(saProc[r].pc \in Delivering /\ D(r) = D(q))
    BY <2>1 DEF CommitAlone
  <2>3. D(q)' = D(q)
    BY <2>1 DEF D, T, SaDevice, Shaped
  <2>4. ASSUME NEW r \in SaProcs \ {q}
        PROVE  saProc'[r].pc # "commit" /\ ~(saProc'[r].pc \in Delivering /\ D(r)' = D(q)')
    <3>1. CASE r = p
      <4>1. saProc'[p].pc \in Delivering => saProc[p].pc \in Delivering /\ D(p)' = D(p)
        BY DEF Onward, Delivering, D, T, SaDevice, Shaped
      <4> QED BY <2>2, <2>3, <3>1, <4>1
    <3>2. CASE r # p
      <4>1. saProc'[r].pc = saProc[r].pc /\ D(r)' = D(r)
        BY <3>2 DEF OthersKeep, D, T, SaDevice, Shaped
      <4> QED BY <2>2, <2>3, <4>1
    <3> QED BY <3>1, <3>2
  <2> QED BY <2>1, <2>2, <2>3, <2>4 DEF T
<1> QED BY <1>1 DEF CommitAlone, T

\* Nobody gets a reservation, nor learns of a Stop.
ReservationsStay ==
  \A q \in SaProcs : saProc'[q].pc \in Reserving =>
    /\ saProc[q].pc \in Reserving /\ saProc'[q].tx = saProc[q].tx /\ saProc'[q].res = saProc[q].res
    /\ saProc'[q].fresh = saProc[q].fresh

\* Reservations under way stay as they are when their process only moves on.
LEMMA OnwardStays ==
  ASSUME NEW p \in SaProcs, OthersStay(p), Onward(p)
  PROVE  ReservationsStay
<1>1. "idle" \notin Reserving
  BY DEF Reserving
<1> QED BY <1>1 DEF ReservationsStay, OthersStay, Onward

\* The intent stays spent, or unspent.
LEMMA FatKept ==
  ASSUME SaInv, Shaped,
         \A t \in SaTxs : saTx'[t].consumed = saTx[t].consumed /\ saHist'[t].runs = saHist[t].runs
  PROVE  FatSpent'
BY SameWorld DEF SaInv, Shaped, FatSpent, SessionOnly

\* Answering Stops keeps what the numbers say.
LEMMA AnswersKept ==
  ASSUME SaInv, Shaped, \A t \in SaTxs : Answers(t), ReservationsStay
  PROVE  FatSpent' /\ StopOnRow' /\ FreshReservation'
<1> USE DEF SaInv
<1>w. SaTxs' = SaTxs
  BY SameWorld DEF Shaped
<1>n. \A t \in SaTxs : saTx[t].ack \in Nat /\ saTx[t].serial \in Nat
  BY DEF RowsOK, TxRow
<1>1. FatSpent'
  BY FatKept DEF Answers
<1>2. ASSUME NEW t \in SaTxs
      PROVE  /\ saTx'[t].ack <= saTx'[t].serial
             /\ saHist'[t].stop # "none" => saTx'[t].stop
             /\ saHist'[t].stop = "asked" => saTx'[t].ack < saTx'[t].serial
  <2>1. /\ saTx[t].ack <= saTx[t].serial
        /\ saHist[t].stop # "none" => saTx[t].stop
        /\ saHist[t].stop = "asked" => saTx[t].ack < saTx[t].serial
    BY DEF StopOnRow
  <2> QED BY <1>n, <2>1 DEF Answers
<1>3. ASSUME NEW q \in SaProcs, saProc'[q].pc \in Reserving
      PROVE  LET res == saProc'[q].res  row == saTx'[saProc'[q].tx]
             IN /\ res.ack <= res.serial /\ res.serial <= row.serial
                /\ ~saProc'[q].fresh => res.ack < res.serial \/ res.serial < row.serial
  <2>1. /\ saProc[q].pc \in Reserving /\ saProc'[q].tx = T(q) /\ saProc'[q].res = saProc[q].res
        /\ saProc'[q].fresh = saProc[q].fresh
    BY <1>3 DEF ReservationsStay, T
  <2>2. T(q) \in SaTxs
    BY <2>1 DEF UnderWay, Reserving
  <2>3. saTx'[T(q)].serial = saTx[T(q)].serial
    BY <2>2 DEF Answers
  <2> QED BY <2>1, <2>3 DEF FreshReservation
<1> QED BY <1>1, <1>2, <1>3, <1>w DEF StopOnRow, FreshReservation, T

\* Nothing said of Stops changes on a step that leaves their numbers alone.
LEMMA UntouchedAnswers ==
  ASSUME saTx' = saTx, saHist' = saHist
  PROVE  \A t \in SaTxs : Answers(t)
BY DEF Answers

-----------------------------------------------------------------------------
(* The invariant, step by step.                                            *)

\* A process moves on, or ends, and touches no row.
LEMMA QuietKeeps ==
  ASSUME SaInv, NEW p \in SaProcs, Shaped, OthersStay(p), LeaseStep(p), Onward(p),
         saProc'[p].pc # "commit", saTx' = saTx, saOwner' = saOwner, saHist' = saHist
  PROVE  SaInv'
<1> USE DEF SaInv
<1>1. OthersKeep(p) /\ RowsOK' /\ UnderWay'
  BY OthersStayKeep, ShapedKeeps
<1>2. LeaseHeld' /\ OwnersApart' /\ CommitAlone'
  BY <1>1, LeaseKept, OwnersKept, CommitUntouched
<1>3. FatSpent' /\ StopOnRow' /\ FreshReservation'
  BY <1>1, AnswersKept, UntouchedAnswers, OnwardStays
<1>4. DeliveryCurrent'
  <2>1. ASSUME NEW q \in SaProcs, saProc'[q].pc \in Delivering
        PROVE  saProc[q].pc \in Delivering /\ saProc'[q].tx = saProc[q].tx /\ saProc'[q].head = saProc[q].head
    BY <1>1, <2>1 DEF Onward, OthersKeep, Delivering
  <2> QED BY <2>1 DEF DeliveryCurrent, Current, T, D, SaDevice, Shaped
<1> QED BY <1>1, <1>2, <1>3, <1>4

\* The steps that touch no row.
LEMMA MovesKeep ==
  ASSUME SaInv, NEW p \in SaProcs,
         \/ AcquireLease(p) \/ Preflight(p) \/ ClaimRefused(p) \/ CheckDestination(p)
         \/ Unexpected(p) \/ InterruptStart(p) \/ SaCrash(p)
  PROVE  SaInv'
<1>1. /\ Shaped /\ OthersStay(p) /\ LeaseStep(p) /\ Onward(p)
      /\ saTx' = saTx /\ saOwner' = saOwner /\ saHist' = saHist
  BY MoveEffect
<1>2. saProc'[p].pc # "commit"
  BY DEF AcquireLease, Preflight, ClaimRefused, CheckDestination, Unexpected,
         InterruptStart, SaCrash, SaGo, SaEnd, SaIdle, SaInv, RowsOK, ProcRow
<1> QED BY <1>1, <1>2, QuietKeeps

\* The lease goes before the commit: nobody else delivers there, and nobody writes.
LEMMA CompleteReleaseKeeps ==
  ASSUME SaInv, NEW p \in SaProcs, CompleteRelease(p)
  PROVE  SaInv'
<1> USE DEF SaInv
<1>1. /\ Shaped /\ OthersStay(p) /\ LeaseStep(p) /\ Onward(p)
      /\ saTx' = saTx /\ saOwner' = saOwner /\ saHist' = saHist
  BY MoveEffect
<1>2. OthersKeep(p) /\ RowsOK' /\ UnderWay'
  BY <1>1, OthersStayKeep, ShapedKeeps
<1>3. LeaseHeld' /\ OwnersApart'
  BY <1>1, <1>2, LeaseKept, OwnersKept
<1>4. FatSpent' /\ StopOnRow' /\ FreshReservation'
  BY <1>1, <1>2, AnswersKept, UntouchedAnswers, OnwardStays
<1>5. DeliveryCurrent'
  <2>1. ASSUME NEW q \in SaProcs, saProc'[q].pc \in Delivering
        PROVE  saProc[q].pc \in Delivering /\ saProc'[q].tx = saProc[q].tx /\ saProc'[q].head = saProc[q].head
    BY <1>1, <1>2, <2>1 DEF Onward, OthersKeep, Delivering
  <2> QED BY <1>1, <2>1 DEF DeliveryCurrent, Current, T, D, SaDevice, Shaped
<1>6. CommitAlone'
  <2>1. /\ saProc[p].pc = "run" /\ Writable /\ Current(p) /\ ~saTx[T(p)].stop
        /\ saTx[T(p)].state = "verifying" /\ SaGo(p, "commit")
    BY DEF CompleteRelease
  <2>2. saProc[p].pc \in Holding
    BY <2>1 DEF Holding
  <2>3. AloneOn(p)
    BY <2>2, HolderAlone
  <2>4. saProc'[p].pc = "commit" /\ saProc'[p].tx = saProc[p].tx
    BY <2>1 DEF SaGo, RowsOK, ProcRow
  <2>5. \A q \in SaProcs \ {p} : saProc'[q].pc # "commit" /\ ~(saProc'[q].pc \in Delivering /\ D(q)' = D(p)')
    BY <1>1, <1>2, <2>1, <2>3, <2>4 DEF OthersKeep, AloneOn, Writable, D, T, SaDevice, Shaped
  <2>6. saTx'[T(p)'].state = "verifying" /\ ~saTx'[T(p)'].stop /\ saOwner'[D(p)'].tx = T(p)'
    BY <1>1, <2>1, <2>4 DEF Current, D, T, SaDevice, Shaped
  <2> QED BY <2>4, <2>5, <2>6 DEF CommitAlone
<1> QED BY <1>2, <1>3, <1>4, <1>5, <1>6

\* The outcomes of a delivery.
LEMMA DeliversKeep ==
  ASSUME SaInv, NEW p \in SaProcs, NEW o \in {"waiting", "failed"},
         \/ Activate(p) \/ RefuseDelivery(p, o) \/ StopDelivery(p) \/ WaitDelivery(p)
         \/ Verifying(p) \/ CloseDelivery(p)
  PROVE  SaInv'
<1> USE DEF SaInv
<1>1. /\ Shaped /\ OthersStay(p) /\ LeaseStep(p) /\ saOwner' = saOwner
      /\ saProc[p].pc \in Holding /\ T(p) \in SaTxs
      /\ \A t \in SaTxs : Answers(t) /\ saTx'[t].head = saTx[t].head
      /\ \A t \in SaTxs \ {T(p)} : saTx'[t] = saTx[t]
      /\ saTx' = saTx \/ (Writable /\ Current(p))
      /\ Onward(p)
      /\ saProc'[p].pc # "idle" => /\ saProc'[p].pc \in Delivering
                                   /\ Writable /\ Current(p) /\ saTx'[T(p)].state \in SaRunning
  BY DeliverEffect
<1>2. OthersKeep(p) /\ RowsOK' /\ UnderWay'
  BY <1>1, OthersStayKeep, ShapedKeeps
<1>3. LeaseHeld' /\ OwnersApart'
  BY <1>1, <1>2, LeaseKept, OwnersKept
<1>4. FatSpent' /\ StopOnRow' /\ FreshReservation'
  BY <1>1, AnswersKept, OnwardStays
<1>5. DeliveryCurrent'
  <2>1. ActsAlone(p)
    BY <1>1, <1>2, HolderAlone DEF ActsAlone
  <2>2. ASSUME saProc'[p].pc \in Delivering
        PROVE  DeliversOn(p)
    <3>1. saProc'[p].pc # "idle"
      BY <2>2 DEF Delivering
    <3>2. saProc[p].pc \in Delivering /\ saProc'[p].tx = T(p) /\ saProc'[p].head = saProc[p].head
      BY <1>1, <2>2, <3>1 DEF Onward, T
    <3>3. saProc[p].head = saTx[T(p)].head
      BY <3>2 DEF DeliveryCurrent
    <3> QED BY <1>1, <3>1, <3>2, <3>3 DEF DeliversOn, Current
  <2> QED BY <1>1, <2>1, <2>2, DeliveryKept
<1>6. CommitAlone'
  <2>1. saProc'[p].pc # "commit"
    BY <1>1 DEF Delivering
  <2>2. CASE saTx' = saTx
    BY <1>1, <1>2, <2>1, <2>2, CommitUntouched
  <2>3. CASE Writable
    BY <1>2, <2>1, <2>3, CommitKept
  <2> QED BY <1>1, <2>2, <2>3
<1> QED BY <1>2, <1>3, <1>4, <1>5, <1>6

\* The operator approves a plan.
LEMMA ApproveKeeps ==
  ASSUME SaInv, NEW t \in SaTxs, SaApprove(t)
  PROVE  SaInv'
<1> USE DEF SaInv
<1>1. /\ Writable /\ saTx[t].state = "ready" /\ saTx' = [saTx EXCEPT ![t] = [saTx[t] EXCEPT !.state = "approved"]]
      /\ UNCHANGED <<saWorld, saOwner, saLease, saProc, saHist, saLeft>>
  BY DEF SaApprove
<1>2. "approved" \in SaStates /\ saTx[t] \in TxRow
  BY DEF SaStates, SaResumable, RowsOK
<1>3. saTx' \in [SaTxs -> TxRow]
  BY <1>1, <1>2, RowTyped DEF RowsOK
<1>4. /\ \A u \in SaTxs \ {t} : saTx'[u] = saTx[u]
      /\ saTx'[t].stop = saTx[t].stop /\ saTx'[t].serial = saTx[t].serial /\ saTx'[t].ack = saTx[t].ack
      /\ saTx'[t].consumed = saTx[t].consumed /\ saTx'[t].head = saTx[t].head
  BY <1>1, <1>2 DEF RowsOK, TxRow
<1>5. Shaped
  BY <1>1, <1>3 DEF Shaped, RowsOK, UnderWay, T
<1>6. RowsOK' /\ UnderWay' /\ OwnersApart'
  BY <1>1, <1>5, ShapedKeeps, OwnersKept
<1>7. LeaseHeld'
  BY <1>1 DEF LeaseHeld, D, T, SaDevice, SaDevices, SaTxs
<1>8. \A u \in SaTxs : Answers(u)
  BY <1>1, <1>4 DEF Answers
<1>9. ReservationsStay
  BY <1>1 DEF ReservationsStay
<1>10. FatSpent' /\ StopOnRow' /\ FreshReservation'
  BY <1>5, <1>8, <1>9, AnswersKept
<1>11. CommitAlone'
  BY <1>1 DEF CommitAlone, Writable
<1>12. DeliveryCurrent'
  <2>1. ASSUME NEW q \in SaProcs, saProc[q].pc \in Delivering
        PROVE  Current(q)' /\ saProc[q].head = saTx'[T(q)].head
    <3>1. Current(q) /\ saProc[q].head = saTx[T(q)].head /\ T(q) \in SaTxs
      BY <2>1 DEF DeliveryCurrent, UnderWay, Delivering
    <3>2. T(q) # t
      BY <1>1, <3>1 DEF Current, SaRunning
    <3>3. saTx'[T(q)] = saTx[T(q)]
      BY <1>4, <3>1, <3>2
    <3> QED BY <1>1, <3>1, <3>3 DEF Current, D, T, SaDevice
  <2> QED BY <1>1, <2>1 DEF DeliveryCurrent, T
<1> QED BY <1>6, <1>7, <1>10, <1>11, <1>12

\* A Stop is asked, by p that gives up (p stays "interrupted" up to here) or from outside.
LEMMA AskKeeps ==
  ASSUME SaInv, Shaped, NEW t \in SaTxs, Writable, saOwner' = saOwner, saLease' = saLease,
         saTx' = [saTx EXCEPT ![t] = Asked(@)], saHist' = [saHist EXCEPT ![t].stop = "asked"],
         \A q \in SaProcs :
           /\ saProc'[q].tx = saProc[q].tx /\ saProc'[q].res = saProc[q].res /\ saProc'[q].head = saProc[q].head
           /\ saProc'[q].pc = saProc[q].pc \/ {saProc[q].pc, saProc'[q].pc} = {"interrupted", "again"}
           /\ saProc'[q].fresh = (saProc[q].fresh /\ T(q) # t)
  PROVE  SaInv'
<1> USE DEF SaInv
<1>s. saTx[t] \in TxRow /\ saHist[t] \in HistRow
  BY DEF RowsOK
<1>r. /\ \A u \in SaTxs \ {t} : saTx'[u] = saTx[u] /\ saHist'[u] = saHist[u]
      /\ saTx'[t].stop /\ saTx'[t].serial = saTx[t].serial + 1 /\ saTx'[t].ack = saTx[t].ack
      /\ saTx'[t].consumed = saTx[t].consumed /\ saTx'[t].head = saTx[t].head /\ saTx'[t].state = saTx[t].state
      /\ saHist'[t].stop = "asked" /\ saHist'[t].runs = saHist[t].runs
  <2>1. saTx'[t] = Asked(saTx[t]) /\ saHist'[t] = [saHist[t] EXCEPT !.stop = "asked"]
    BY DEF RowsOK
  <2>2. /\ \A u \in SaTxs \ {t} : saTx'[u] = saTx[u]
        /\ \A u \in SaTxs \ {t} : saHist'[u] = saHist[u]
    BY DEF RowsOK
  <2>3. /\ Asked(saTx[t]).stop /\ Asked(saTx[t]).serial = saTx[t].serial + 1 /\ Asked(saTx[t]).ack = saTx[t].ack
        /\ Asked(saTx[t]).consumed = saTx[t].consumed /\ Asked(saTx[t]).head = saTx[t].head
        /\ Asked(saTx[t]).state = saTx[t].state
    BY <1>s, Zenon DEF Asked, TxRow
  <2>4. [saHist[t] EXCEPT !.stop = "asked"].stop = "asked" /\ [saHist[t] EXCEPT !.stop = "asked"].runs = saHist[t].runs
    BY <1>s DEF HistRow
  <2> QED BY <2>1, <2>2, <2>3, <2>4
<1>n. \A u \in SaTxs : saTx[u].ack \in Nat /\ saTx[u].serial \in Nat
  BY DEF RowsOK, TxRow
<1>w. SaTxs' = SaTxs /\ SaDevices' = SaDevices
  BY SameWorld DEF Shaped
<1>c. \A q \in SaProcs : /\ saProc'[q].pc \in Holding <=> saProc[q].pc \in Holding
                         /\ saProc'[q].pc \in Reserving <=> saProc[q].pc \in Reserving
                         /\ saProc'[q].pc \in Delivering <=> saProc[q].pc \in Delivering
                         /\ saProc'[q].pc # "commit"
  BY DEF Holding, Reserving, Delivering, Writable
<1>1. RowsOK' /\ UnderWay' /\ OwnersApart'
  BY ShapedKeeps, OwnersKept
<1>2. \A q \in SaProcs : T(q)' = T(q) /\ D(q)' = D(q)
  BY DEF D, T, SaDevice, Shaped
<1>3. LeaseHeld'
  <2>1. \A d \in SaDevices : saLease[d] # "none" => saLease[d] \in SaProcs
    BY DEF RowsOK
  <2>2. \A q \in SaProcs : saProc'[q].pc \in Holding => saLease'[D(q)'] = q
    BY <1>c, <1>2 DEF LeaseHeld
  <2>3. \A d \in SaDevices : saLease'[d] # "none" =>
          saProc'[saLease[d]].pc \in Holding /\ D(saLease[d])' = d
    BY <1>c, <1>2, <2>1 DEF LeaseHeld
  <2> QED BY <1>w, <2>2, <2>3 DEF LeaseHeld
<1>4. DeliveryCurrent'
  <2>1. ASSUME NEW q \in SaProcs, saProc'[q].pc \in Delivering
        PROVE  Current(q)' /\ saProc'[q].head = saTx'[T(q)'].head
    <3>1. Current(q) /\ saProc[q].head = saTx[T(q)].head /\ T(q) \in SaTxs
      BY <1>c, <2>1 DEF DeliveryCurrent, UnderWay, Delivering
    <3>2. saTx'[T(q)].state = saTx[T(q)].state /\ saTx'[T(q)].head = saTx[T(q)].head
      BY <1>r, <3>1
    <3> QED BY <1>2, <3>1, <3>2 DEF Current
  <2> QED BY <2>1 DEF DeliveryCurrent
<1>5. CommitAlone'
  BY <1>c DEF CommitAlone
<1>6. FatSpent'
  BY <1>r, FatKept
<1>7. StopOnRow'
  <2>1. ASSUME NEW u \in SaTxs
        PROVE  /\ saTx'[u].ack <= saTx'[u].serial
               /\ saHist'[u].stop # "none" => saTx'[u].stop
               /\ saHist'[u].stop = "asked" => saTx'[u].ack < saTx'[u].serial
    BY <1>n, <1>r DEF StopOnRow
  <2> QED BY <1>w, <2>1 DEF StopOnRow
<1>8. FreshReservation'
  <2>1. ASSUME NEW q \in SaProcs, saProc'[q].pc \in Reserving
        PROVE  LET res == saProc'[q].res  row == saTx'[T(q)']
               IN /\ res.ack <= res.serial /\ res.serial <= row.serial
                  /\ ~saProc'[q].fresh => res.ack < res.serial \/ res.serial < row.serial
    <3>1. saProc[q].pc \in Reserving /\ saProc'[q].res = saProc[q].res /\ T(q) \in SaTxs
          /\ saProc[q].res \in Reservation
      BY <1>c, <2>1 DEF UnderWay, Reserving
    <3>2. LET res == saProc[q].res  row == saTx[T(q)]
          IN /\ res.ack <= res.serial /\ res.serial <= row.serial
             /\ ~saProc[q].fresh => res.ack < res.serial \/ res.serial < row.serial
      BY <3>1 DEF FreshReservation
    <3>3. saProc[q].res.serial \in Nat /\ saProc[q].res.ack \in Nat
      BY <3>1 DEF Reservation
    <3>4. CASE T(q) = t
      BY <1>2, <1>n, <1>r, <3>1, <3>2, <3>3, <3>4
    <3>5. CASE T(q) # t
      BY <1>2, <1>r, <3>1, <3>2, <3>5
    <3> QED BY <3>4, <3>5
  <2> QED BY <2>1 DEF FreshReservation
<1> QED BY <1>1, <1>3, <1>4, <1>5, <1>6, <1>7, <1>8

\* request_stop keeps the invariant.
LEMMA AsksKeep ==
  ASSUME SaInv, NEW t \in SaTxs, RequestStop(t)
  PROVE  SaInv'
<1> USE DEF SaInv
<1>1. /\ Writable /\ saOwner' = saOwner /\ saLease' = saLease /\ saWorld' = saWorld /\ saLeft.stops > 0
      /\ saTx' = [saTx EXCEPT ![t] = Asked(@)] /\ saHist' = [saHist EXCEPT ![t].stop = "asked"]
      /\ saLeft' = [saLeft EXCEPT !.stops = @ - 1]
      /\ saProc' = [p \in SaProcs |-> IF T(p) = t THEN [saProc[p] EXCEPT !.fresh = FALSE] ELSE saProc[p]]
  BY DEF RequestStop
<1>2. \A q \in SaProcs : /\ saProc'[q] \in ProcRow /\ saProc'[q].pc = saProc[q].pc
                         /\ saProc'[q].tx = saProc[q].tx /\ saProc'[q].res = saProc[q].res
                         /\ saProc'[q].head = saProc[q].head
                         /\ saProc'[q].fresh = (saProc[q].fresh /\ T(q) # t)
  <2> TAKE q \in SaProcs
  <2>1. saProc[q] \in ProcRow /\ saProc'[q] = IF T(q) = t THEN [saProc[q] EXCEPT !.fresh = FALSE] ELSE saProc[q]
    BY <1>1 DEF RowsOK
  <2>2. saProc[q].fresh \in BOOLEAN
    BY <2>1 DEF ProcRow
  <2>3. CASE T(q) = t
    BY <2>1, <2>3 DEF ProcRow
  <2>4. CASE T(q) # t
    BY <2>1, <2>2, <2>4
  <2> QED BY <2>3, <2>4
<1>3. saProc' \in [SaProcs -> ProcRow]
  BY <1>1, <1>2
<1>4. saTx' \in [SaTxs -> TxRow] /\ saHist' \in [SaTxs -> HistRow]
  <2>1. saTx[t] \in TxRow /\ saHist[t] \in HistRow
    BY DEF RowsOK
  <2>2. Asked(saTx[t]) \in TxRow /\ [saHist[t] EXCEPT !.stop = "asked"] \in HistRow
    BY <2>1, RowTyped DEF HistRow
  <2> QED BY <1>1, <2>2 DEF RowsOK
<1>5. Shaped
  <2>1. saLeft' \in [starts : Nat, stops : Nat, crashes : Nat]
    BY <1>1, LeftTyped
  <2>2. saOwner' \in [SaDevices -> OwnerRow] /\ saLease' \in [SaDevices -> SaProcs \cup {"none"}]
    BY <1>1 DEF RowsOK
  <2> QED BY <1>1, <1>2, <1>3, <1>4, <2>1, <2>2 DEF Shaped, UnderWay, T
<1> QED BY <1>1, <1>2, <1>5, AskKeeps

\* So does the Stop that an interrupted attempt asks of its own row.
LEMMA AskAfterInterruptKeeps ==
  ASSUME SaInv, NEW p \in SaProcs, AskAfterInterrupt(p)
  PROVE  SaInv'
<1> USE DEF SaInv
<1> DEFINE t == T(p)
<1>0. saProc[p].pc = "interrupted" /\ t \in SaTxs
  BY DEF AskAfterInterrupt, UnderWay
<1>1. /\ Writable /\ saOwner' = saOwner /\ saLease' = saLease /\ saWorld' = saWorld /\ saLeft' = saLeft
      /\ saTx' = [saTx EXCEPT ![t] = Asked(@)] /\ saHist' = [saHist EXCEPT ![t].stop = "asked"]
      /\ saProc' = [q \in SaProcs |-> IF q = p THEN [saProc[p] EXCEPT !.pc = "again", !.fresh = FALSE]
                                      ELSE IF T(q) = t THEN [saProc[q] EXCEPT !.fresh = FALSE] ELSE saProc[q]]
  BY DEF AskAfterInterrupt
<1>2. \A q \in SaProcs : /\ saProc'[q] \in ProcRow
                         /\ saProc'[q].pc = IF q = p THEN "again" ELSE saProc[q].pc
                         /\ saProc'[q].tx = saProc[q].tx /\ saProc'[q].res = saProc[q].res
                         /\ saProc'[q].head = saProc[q].head
                         /\ saProc'[q].fresh = (saProc[q].fresh /\ T(q) # t)
  <2> TAKE q \in SaProcs
  <2>1. saProc[q] \in ProcRow
    BY DEF RowsOK
  <2>2. saProc[q].fresh \in BOOLEAN
    BY <2>1 DEF ProcRow
  <2>3. CASE q = p
    <3>1. saProc'[p] = [saProc[p] EXCEPT !.pc = "again", !.fresh = FALSE]
      BY <1>1
    <3>2. "again" \in SaPcs /\ FALSE \in BOOLEAN
      BY DEF SaPcs
    <3>3. [saProc[p] EXCEPT !.pc = "again", !.fresh = FALSE] \in ProcRow
      BY <2>1, <2>3, <3>2, Zenon DEF ProcRow
    <3>4. /\ saProc'[p].pc = "again" /\ saProc'[p].tx = saProc[p].tx /\ saProc'[p].res = saProc[p].res
          /\ saProc'[p].head = saProc[p].head /\ saProc'[p].fresh = FALSE
      BY <2>1, <2>3, <3>1, Zenon DEF ProcRow
    <3> QED BY <2>3, <3>1, <3>3, <3>4
  <2>4. CASE q # p /\ T(q) = t
    <3>1. saProc'[q] = [saProc[q] EXCEPT !.fresh = FALSE]
      BY <1>1, <2>4
    <3> QED BY <2>1, <2>4, <3>1 DEF ProcRow
  <2>5. CASE q # p /\ T(q) # t
    BY <1>1, <2>1, <2>2, <2>5
  <2> QED BY <2>3, <2>4, <2>5
<1>3. saProc' \in [SaProcs -> ProcRow]
  BY <1>1, <1>2
<1>4. saTx' \in [SaTxs -> TxRow] /\ saHist' \in [SaTxs -> HistRow]
  <2>1. saTx[t] \in TxRow /\ saHist[t] \in HistRow
    BY <1>0 DEF RowsOK
  <2>2. Asked(saTx[t]) \in TxRow /\ [saHist[t] EXCEPT !.stop = "asked"] \in HistRow
    BY <2>1, RowTyped DEF HistRow
  <2> QED BY <1>1, <2>2 DEF RowsOK
<1>5. Shaped
  <2>2. /\ saOwner' \in [SaDevices -> OwnerRow] /\ saLease' \in [SaDevices -> SaProcs \cup {"none"}]
        /\ saLeft' \in [starts : Nat, stops : Nat, crashes : Nat]
    BY <1>1 DEF RowsOK
  <2>3. \A q \in SaProcs : /\ saProc'[q].pc # "idle" => saProc'[q].tx \in SaTxs
                           /\ saProc'[q].pc \in Reserving => saProc'[q].res \in Reservation
    BY <1>0, <1>2 DEF UnderWay, T, Reserving
  <2> QED BY <1>1, <1>3, <1>4, <2>2, <2>3 DEF Shaped
<1>6. \A q \in SaProcs :
           /\ saProc'[q].tx = saProc[q].tx /\ saProc'[q].res = saProc[q].res /\ saProc'[q].head = saProc[q].head
           /\ saProc'[q].pc = saProc[q].pc \/ {saProc[q].pc, saProc'[q].pc} = {"interrupted", "again"}
           /\ saProc'[q].fresh = (saProc[q].fresh /\ T(q) # t)
  BY <1>0, <1>2
<1> HIDE DEF t
<1> QED BY <1>0, <1>1, <1>5, <1>6, AskKeeps DEF t

\* A Start reads the rows; what it knows of Stops is what the rows say.
LEMMA StartReserveKeeps ==
  ASSUME SaInv, NEW p \in SaProcs, NEW t \in SaTxs, StartReserve(p, t)
  PROVE  SaInv'
<1> USE DEF SaInv
<1>1. /\ saProc[p].pc \in {"idle", "again"} /\ saTx' = saTx /\ saOwner' = saOwner /\ saHist' = saHist
      /\ saLease' = saLease /\ saWorld' = saWorld
      /\ saLeft' \in [starts : Nat, stops : Nat, crashes : Nat]
  BY LeftTyped DEF StartReserve, RowsOK
<1>s. saTx[t] \in TxRow /\ saTx[t].state \in SaStates /\ saTx[t].serial \in Nat /\ saTx[t].ack \in Nat
      /\ saHist[t] \in HistRow /\ saHist[t].stop \in {"none", "asked", "acked"}
  <2>1. saTx[t] \in TxRow /\ saHist[t] \in HistRow
    BY DEF RowsOK
  <2> QED BY <2>1 DEF TxRow, HistRow
<1>2. CASE Reservable(t)
  <2> DEFINE r == [state |-> saTx[t].state, serial |-> saTx[t].serial, ack |-> saTx[t].ack]
             c == IF saOwner[SaDevice(t)].tx = t THEN "acquire" ELSE "insert"
             f == saHist[t].stop # "asked"
             row == [pc |-> c, tx |-> t, res |-> r, pre |-> saTx[t].head = 0, fresh |-> f, head |-> 0]
  <2>1. saProc' = [saProc EXCEPT ![p] = row]
    BY <1>2 DEF StartReserve
  <2>2. r \in Reservation /\ c \in SaPcs /\ 0 \in 0..SaHead /\ (saTx[t].head = 0) \in BOOLEAN /\ f \in BOOLEAN
    BY <1>s, SliceAuthorityNames DEF Reservation, SaPcs
  <2>c. /\ c \notin Holding /\ c \in Reserving /\ c \notin Delivering /\ c # "commit" /\ c # "idle"
        /\ saProc[p].pc \notin Holding
    BY <1>1 DEF Holding, Reserving, Delivering
  <2>r. r.serial = saTx[t].serial /\ r.ack = saTx[t].ack
    OBVIOUS
  <2> HIDE DEF r, c, f
  <2>3. row \in ProcRow /\ row.pc = c /\ row.tx = t /\ row.res = r /\ row.fresh = f
    BY <2>2 DEF ProcRow
  <2> HIDE DEF row
  <2>4. saProc' \in [SaProcs -> ProcRow] /\ saProc'[p] = row /\ OthersStay(p)
    BY <2>1, <2>3 DEF RowsOK, OthersStay
  <2>5. OthersKeep(p)
    BY <2>4, OthersStayKeep
  <2>6. Shaped
    <3>1. \A q \in SaProcs : /\ saProc'[q].pc # "idle" => saProc'[q].tx \in SaTxs
                             /\ saProc'[q].pc \in Reserving => saProc'[q].res \in Reservation
      BY <2>2, <2>3, <2>4 DEF UnderWay, T, OthersStay
    <3> QED BY <1>1, <2>4, <3>1 DEF Shaped, RowsOK
  <2>7. RowsOK' /\ UnderWay' /\ OwnersApart'
    BY <1>1, <2>6, ShapedKeeps, OwnersKept
  <2>8. LeaseHeld'
    <3>1. LeaseStep(p)
      BY <1>1, <2>3, <2>4, <2>c DEF LeaseStep
    <3> QED BY <2>5, <2>6, <3>1, LeaseKept
  <2>9. DeliveryCurrent'
    <3>1. ASSUME NEW q \in SaProcs, saProc'[q].pc \in Delivering
          PROVE  saProc'[q] = saProc[q]
      BY <2>3, <2>4, <2>c, <3>1 DEF OthersStay
    <3> QED BY <1>1, <3>1 DEF DeliveryCurrent, Current, T, D, SaDevice
  <2>10. CommitAlone'
    <3>1. ASSUME NEW q \in SaProcs, saProc'[q].pc \in Delivering \cup {"commit"}
          PROVE  saProc'[q] = saProc[q]
      BY <2>3, <2>4, <2>c, <3>1 DEF OthersStay
    <3> QED BY <1>1, <3>1 DEF CommitAlone, T, D, SaDevice
  <2>11. FatSpent' /\ StopOnRow'
    BY <1>1, SameWorld DEF FatSpent, StopOnRow, SessionOnly
  <2>12. FreshReservation'
    <3>1. ASSUME NEW q \in SaProcs, saProc'[q].pc \in Reserving
          PROVE  LET res == saProc'[q].res  rw == saTx'[T(q)']
                 IN /\ res.ack <= res.serial /\ res.serial <= rw.serial
                    /\ ~saProc'[q].fresh => res.ack < res.serial \/ res.serial < rw.serial
      <4>1. CASE q = p
        <5>1. /\ saTx[t].ack <= saTx[t].serial
              /\ saHist[t].stop = "asked" => saTx[t].ack < saTx[t].serial
          BY DEF StopOnRow
        <5>2. saProc'[p].res = r /\ T(p)' = t /\ saProc'[p].fresh = f
          BY <2>3, <2>4 DEF T
        <5>3. ~f => saHist[t].stop = "asked"
          BY DEF f
        <5> QED BY <1>1, <1>s, <2>r, <4>1, <5>1, <5>2, <5>3
      <4>2. CASE q # p
        BY <1>1, <2>4, <3>1, <4>2 DEF FreshReservation, OthersStay, T
      <4> QED BY <4>1, <4>2
    <3> QED BY <3>1 DEF FreshReservation
  <2> QED BY <2>7, <2>8, <2>9, <2>10, <2>11, <2>12
<1>3. CASE ~Reservable(t)
  <2>1. SaEnd(p) /\ saProc[p].pc = "again"
    BY <1>3 DEF StartReserve
  <2>2. saProc' \in [SaProcs -> ProcRow] /\ OthersStay(p) /\ saProc'[p].pc = "idle"
         /\ \A q \in SaProcs : /\ saProc'[q].pc # "idle" => saProc'[q].tx \in SaTxs
                               /\ saProc'[q].pc \in Reserving => saProc'[q].res \in Reservation
    BY <2>1, EndEffect
  <2>3. Onward(p) /\ LeaseStep(p) /\ Shaped
    BY <1>1, <2>1, <2>2 DEF Onward, LeaseStep, Holding, Shaped, RowsOK
  <2> QED BY <1>1, <2>2, <2>3, QuietKeeps
<1> QED BY <1>2, <1>3

\* A device gets its owner: no delivery is under way on it, and no claim overlaps.
LEMMA InsertKeeps ==
  ASSUME SaInv, NEW p \in SaProcs, Insert(p)
  PROVE  SaInv'
<1> USE DEF SaInv
<1> DEFINE t == T(p)  d == D(p)
<1>0. /\ saProc[p].pc = "insert" /\ Writable /\ t \in SaTxs /\ d \in SaDevices
      /\ saWorld' = saWorld /\ saLease' = saLease /\ saHist' = saHist /\ saLeft' = saLeft
  BY Names DEF Insert, UnderWay, D
<1>r. /\ saWorld \in SaWorlds /\ saTx \in [SaTxs -> TxRow] /\ saOwner \in [SaDevices -> OwnerRow]
      /\ saLease \in [SaDevices -> SaProcs \cup {"none"}] /\ saHist \in [SaTxs -> HistRow]
      /\ saLeft \in [starts : Nat, stops : Nat, crashes : Nat]
  BY DEF RowsOK
<1>c. /\ "acquire" \in SaPcs /\ "acquire" \in Reserving /\ "acquire" \notin Holding /\ "acquire" \notin Delivering
      /\ "insert" \in Reserving /\ "insert" \notin Holding /\ "idle" \notin Holding
  BY DEF SaPcs, Reserving, Holding, Delivering
<1>1. CASE ~Reservable(t)
  <2>1. SaEnd(p) /\ saTx' = saTx /\ saOwner' = saOwner
    BY <1>1 DEF Insert
  <2>2. /\ saProc' \in [SaProcs -> ProcRow] /\ OthersStay(p) /\ saProc'[p].pc = "idle"
        /\ \A q \in SaProcs : /\ saProc'[q].pc # "idle" => saProc'[q].tx \in SaTxs
                              /\ saProc'[q].pc \in Reserving => saProc'[q].res \in Reservation
    BY <2>1, EndEffect
  <2>3. Onward(p) /\ LeaseStep(p) /\ Shaped
    BY <1>0, <1>c, <1>r, <2>1, <2>2 DEF Onward, LeaseStep, Shaped
  <2> QED BY <1>0, <2>1, <2>2, <2>3, QuietKeeps
<1>2. CASE Reservable(t)
  <2>1. SaGo(p, "acquire")
    BY <1>2 DEF Insert
  <2>2. /\ saProc' \in [SaProcs -> ProcRow] /\ OthersStay(p) /\ saProc'[p].pc = "acquire"
        /\ saProc'[p].tx = t /\ saProc'[p].res = saProc[p].res
        /\ saProc'[p].fresh = saProc[p].fresh /\ saProc'[p].head = saProc[p].head
        /\ \A q \in SaProcs : /\ saProc'[q].pc # "idle" => saProc'[q].tx \in SaTxs
                              /\ saProc'[q].pc \in Reserving => saProc'[q].res \in Reservation
    BY <1>0, <1>c, <2>1, GoEffect DEF T
  <2>3. Onward(p) /\ LeaseStep(p)
    BY <1>0, <1>c, <2>2 DEF Onward, LeaseStep, T
  <2>4. CASE saOwner[d].tx = t
    <3>1. saTx' = saTx /\ saOwner' = saOwner
      BY <1>2, <2>4 DEF Insert
    <3>2. Shaped
      BY <1>0, <1>r, <2>2, <3>1 DEF Shaped
    <3> QED BY <1>0, <2>2, <2>3, <3>1, <3>2, QuietKeeps
  <2>5. CASE saOwner[d].tx # t
    <3>1. /\ saOwner' = [saOwner EXCEPT ![d] = [tx |-> t, attempt |-> "none"]]
          /\ saTx' = [saTx EXCEPT ![t] = [saTx[t] EXCEPT !.state = "starting"]]
      BY <1>2, <2>5 DEF Insert
    <3>2. "starting" \in SaStates /\ saTx[t] \in TxRow
      BY <1>0, <1>r DEF SaStates, SaResumable, SaRunning
    <3>3. [saTx[t] EXCEPT !.state = "starting"] \in TxRow /\ [tx |-> t, attempt |-> "none"] \in OwnerRow
      BY <1>0, <3>2, RowTyped DEF OwnerRow
    <3>4. saTx' \in [SaTxs -> TxRow] /\ saOwner' \in [SaDevices -> OwnerRow]
      BY <1>r, <3>1, <3>3
    <3>5. Shaped
      BY <1>0, <1>r, <2>2, <3>4 DEF Shaped
    <3>6. /\ \A u \in SaTxs \ {t} : saTx'[u] = saTx[u]
          /\ \A e \in SaDevices \ {d} : saOwner'[e] = saOwner[e]
          /\ saOwner'[d].tx = t
          /\ saTx'[t].stop = saTx[t].stop /\ saTx'[t].serial = saTx[t].serial /\ saTx'[t].ack = saTx[t].ack
          /\ saTx'[t].consumed = saTx[t].consumed
      BY <1>0, <1>r, <3>1, <3>2 DEF TxRow
    <3>7. \A e \in SaDevices : saOwner[e].tx \notin {"none", t} => ~ClaimsOverlap(t, saOwner[e].tx)
      BY <1>2, <1>r DEF Reservable
    <3>8. \A e \in SaDevices : saOwner[e].tx # "none" => saOwner[e].tx \in SaTxs /\ SaDevice(saOwner[e].tx) = e
      BY <1>r DEF OwnersApart, OwnerRow
    <3>9. saOwner[d].tx = "none"
      BY <1>0, <2>5, <3>7, <3>8 DEF ClaimsOverlap, D
    <3>10. OthersKeep(p) /\ RowsOK' /\ UnderWay'
      BY <2>2, <3>5, OthersStayKeep, ShapedKeeps
    <3>11. LeaseHeld'
      BY <2>3, <3>5, <3>10, LeaseKept
    <3>12. FatSpent' /\ StopOnRow' /\ FreshReservation'
      <4>1. \A u \in SaTxs : Answers(u)
        BY <1>0, <3>6 DEF Answers
      <4> QED BY <2>2, <2>3, <3>5, <4>1, AnswersKept, OnwardStays
    <3>13. CommitAlone'
      BY <1>0, <2>2, <3>10, CommitKept
    <3>14. DeliveryCurrent'
      <4>1. AloneOn(p)
        <5>1. ASSUME NEW q \in SaProcs \ {p}, saProc[q].pc \in Delivering
              PROVE  D(q) # d
          <6>0. saProc[q].pc # "idle" /\ saOwner[D(q)] = [tx |-> T(q), attempt |-> q]
            BY <5>1 DEF DeliveryCurrent, Current, Delivering
          <6>1. saOwner[D(q)].tx = T(q) /\ T(q) \in SaTxs
            BY <6>0 DEF UnderWay
          <6>2. "none" \notin SaTxs
            BY Names
          <6>3. saOwner[D(q)].tx # saOwner[d].tx
            BY <3>9, <6>1, <6>2
          <6> QED BY <6>3
        <5> QED BY <5>1 DEF AloneOn
      <4>2. ActsAlone(p)
        BY <1>0, <3>6, <3>10, <4>1 DEF ActsAlone
      <4> QED BY <1>c, <2>2, <3>5, <4>2, DeliveryKept
    <3>15. OwnersApart'
      <4>1. SaDevice(t) = d /\ SaDevices' = SaDevices
        BY <3>5, SameWorld DEF D, Shaped
      <4>2. \A e \in SaDevices \ {d} : saOwner[e].tx # "none" =>
              ~ClaimsOverlap(t, saOwner[e].tx) /\ ~ClaimsOverlap(saOwner[e].tx, t)
        <5>1. ASSUME NEW e \in SaDevices \ {d}, saOwner[e].tx # "none"
              PROVE  ~ClaimsOverlap(t, saOwner[e].tx) /\ ~ClaimsOverlap(saOwner[e].tx, t)
          <6>1. saOwner[e].tx # t
            BY <3>8, <4>1, <5>1
          <6>2. ~ClaimsOverlap(t, saOwner[e].tx)
            BY <3>7, <5>1, <6>1
          <6>3. {t, saOwner[e].tx} = {saOwner[e].tx, t}
            OBVIOUS
          <6> QED BY <6>2, <6>3 DEF ClaimsOverlap
        <5> QED BY <5>1
      <4>3. ASSUME NEW e \in SaDevices, saOwner'[e].tx # "none"
            PROVE  /\ SaDevice(saOwner'[e].tx) = e
                   /\ \A g \in SaDevices \ {e} : saOwner'[g].tx # "none" =>
                        ~ClaimsOverlap(saOwner'[e].tx, saOwner'[g].tx)
        <5>1. CASE e = d
          BY <3>6, <4>1, <4>2, <5>1
        <5>2. CASE e # d
          <6>1. saOwner'[e].tx = saOwner[e].tx /\ SaDevice(saOwner[e].tx) = e
            BY <3>6, <3>8, <4>3, <5>2
          <6>2. \A g \in SaDevices \ {e, d} : saOwner'[g].tx # "none" =>
                  ~ClaimsOverlap(saOwner'[e].tx, saOwner'[g].tx)
            BY <3>6, <4>3, <6>1 DEF OwnersApart
          <6>3. ~ClaimsOverlap(saOwner'[e].tx, saOwner'[d].tx)
            BY <3>6, <4>2, <4>3, <5>2, <6>1
          <6> QED BY <6>1, <6>2, <6>3
        <5> QED BY <5>1, <5>2
      <4> QED BY <1>0, <4>1, <4>3 DEF OwnersApart, SaDevice, ClaimsOverlap
    <3> QED BY <3>10, <3>11, <3>12, <3>13, <3>14, <3>15
  <2> QED BY <2>4, <2>5
<1> QED BY <1>1, <1>2

\* A record is appended at the head that the delivery knows.
LEMMA AppendKeeps ==
  ASSUME SaInv, NEW p \in SaProcs, AppendRecord(p)
  PROVE  SaInv'
<1> USE DEF SaInv
<1> DEFINE t == T(p)
<1>0. /\ saProc[p].pc = "run" /\ Writable /\ Current(p) /\ t \in SaTxs /\ saProc[p].head = saTx[t].head
      /\ saTx' = [saTx EXCEPT ![t] = [saTx[t] EXCEPT !.head = @ + 1]]
      /\ saProc' = [saProc EXCEPT ![p] = [saProc[p] EXCEPT !.head = @ + 1]]
      /\ saWorld' = saWorld /\ saOwner' = saOwner /\ saLease' = saLease /\ saHist' = saHist /\ saLeft' = saLeft
  BY DEF AppendRecord, UnderWay
<1>1. saTx[t] \in TxRow /\ saProc[p] \in ProcRow /\ SaHead \in Nat
  BY <1>0, Names DEF RowsOK
<1>2. saTx[t].head + 1 \in 0..SaHead
  <2>1. saTx[t].head \in 0..SaHead
    BY <1>1 DEF TxRow
  <2>2. saTx[t].head < SaHead
    BY <1>1, <2>1 DEF AppendRecord
  <2> QED BY <1>1, <2>1, <2>2
<1>3. saTx' \in [SaTxs -> TxRow] /\ saProc' \in [SaProcs -> ProcRow]
  <2>1. [saTx[t] EXCEPT !.head = @ + 1] \in TxRow
    BY <1>1, <1>2 DEF TxRow
  <2>2. [saProc[p] EXCEPT !.head = @ + 1] \in ProcRow
    BY <1>0, <1>1, <1>2 DEF ProcRow
  <2> QED BY <1>0, <2>1, <2>2 DEF RowsOK
<1>4. /\ \A u \in SaTxs \ {t} : saTx'[u] = saTx[u]
      /\ saTx'[t].head = saTx[t].head + 1 /\ saTx'[t].state = saTx[t].state
      /\ saTx'[t].stop = saTx[t].stop /\ saTx'[t].serial = saTx[t].serial /\ saTx'[t].ack = saTx[t].ack
      /\ saTx'[t].consumed = saTx[t].consumed
  BY <1>0, <1>1 DEF RowsOK, TxRow
<1>5. /\ OthersStay(p)
      /\ saProc'[p].head = saProc[p].head + 1 /\ saProc'[p].pc = "run" /\ saProc'[p].tx = t
  BY <1>0, <1>1 DEF RowsOK, ProcRow, OthersStay, T
<1>6. "run" \in Holding /\ "run" \notin Reserving
  BY DEF Holding, Reserving
<1>7. Shaped
  <2>1. \A q \in SaProcs : /\ saProc'[q].pc # "idle" => saProc'[q].tx \in SaTxs
                           /\ saProc'[q].pc \in Reserving => saProc'[q].res \in Reservation
    BY <1>0, <1>5, <1>6 DEF UnderWay, T, OthersStay
  <2> QED BY <1>0, <1>3, <2>1 DEF Shaped, RowsOK
<1>8. OthersKeep(p) /\ RowsOK' /\ UnderWay' /\ OwnersApart'
  BY <1>0, <1>5, <1>7, OthersStayKeep, ShapedKeeps, OwnersKept
<1>9. LeaseHeld'
  <2>1. LeaseStep(p)
    BY <1>0, <1>5, <1>6 DEF LeaseStep
  <2> QED BY <1>7, <1>8, <2>1, LeaseKept
<1>10. FatSpent' /\ StopOnRow' /\ FreshReservation'
  <2>1. \A u \in SaTxs : Answers(u)
    BY <1>0, <1>4 DEF Answers
  <2>2. ReservationsStay
    BY <1>5, <1>6 DEF ReservationsStay, OthersStay
  <2> QED BY <1>7, <2>1, <2>2, AnswersKept
<1>11. CommitAlone'
  BY <1>0, <1>5, <1>8, CommitKept
<1>12. DeliveryCurrent'
  <2>1. AloneOn(p)
    BY <1>0, <1>6, HolderAlone
  <2>2. ActsAlone(p)
    BY <1>0, <1>4, <1>8, <2>1 DEF ActsAlone
  <2>3. DeliversOn(p)
    BY <1>0, <1>4, <1>5 DEF DeliversOn, Current
  <2> QED BY <1>7, <2>2, <2>3, DeliveryKept
<1> QED BY <1>8, <1>9, <1>10, <1>11, <1>12

\* The commit of a completion: the transaction is complete and the device has no owner.
LEMMA CompleteCommitKeeps ==
  ASSUME SaInv, NEW p \in SaProcs, CompleteCommit(p)
  PROVE  SaInv'
<1> USE DEF SaInv
<1> DEFINE t == T(p)  d == D(p)
<1>0. /\ saProc[p].pc = "commit" /\ t \in SaTxs /\ d \in SaDevices /\ SaEnd(p)
      /\ saTx' = [saTx EXCEPT ![t] = [saTx[t] EXCEPT !.state = "complete"]]
      /\ saOwner' = [saOwner EXCEPT ![d] = SaNoOwner]
      /\ saWorld' = saWorld /\ saLease' = saLease /\ saHist' = saHist /\ saLeft' = saLeft
  BY Names DEF CompleteCommit, UnderWay, D
<1>1. saTx[t] \in TxRow /\ "complete" \in SaStates /\ SaNoOwner \in OwnerRow /\ SaNoOwner.tx = "none"
  BY <1>0 DEF RowsOK, SaStates, SaTerminal, SaNoOwner, OwnerRow
<1>2. saTx' \in [SaTxs -> TxRow] /\ saOwner' \in [SaDevices -> OwnerRow]
  BY <1>0, <1>1, RowTyped DEF RowsOK
<1>3. /\ \A u \in SaTxs \ {t} : saTx'[u] = saTx[u]
      /\ saTx'[t].stop = saTx[t].stop /\ saTx'[t].serial = saTx[t].serial /\ saTx'[t].ack = saTx[t].ack
      /\ saTx'[t].consumed = saTx[t].consumed
      /\ \A e \in SaDevices \ {d} : saOwner'[e] = saOwner[e]
      /\ saOwner'[d].tx = "none"
  BY <1>0, <1>1 DEF RowsOK, TxRow
<1>4. /\ saProc' \in [SaProcs -> ProcRow] /\ OthersStay(p) /\ saProc'[p].pc = "idle"
      /\ \A q \in SaProcs : /\ saProc'[q].pc # "idle" => saProc'[q].tx \in SaTxs
                            /\ saProc'[q].pc \in Reserving => saProc'[q].res \in Reservation
  BY <1>0, EndEffect
<1>5. Shaped
  BY <1>0, <1>2, <1>4 DEF Shaped, RowsOK
<1>6. Onward(p) /\ LeaseStep(p)
  BY <1>0, <1>4 DEF Onward, LeaseStep, Holding
<1>7. OthersKeep(p) /\ RowsOK' /\ UnderWay' /\ LeaseHeld'
  BY <1>4, <1>5, <1>6, OthersStayKeep, ShapedKeeps, LeaseKept
<1>8. OwnersApart'
  BY <1>3, <1>5, OwnersKept
<1>9. FatSpent' /\ StopOnRow' /\ FreshReservation'
  <2>1. \A u \in SaTxs : Answers(u)
    BY <1>0, <1>3 DEF Answers
  <2> QED BY <1>4, <1>5, <1>6, <2>1, AnswersKept, OnwardStays
<1>10. \A q \in SaProcs \ {p} : saProc[q].pc # "commit" /\ ~(saProc[q].pc \in Delivering /\ D(q) = D(p))
  BY <1>0 DEF CommitAlone
<1>11. CommitAlone'
  BY <1>4, <1>10 DEF CommitAlone, OthersStay
<1>12. DeliveryCurrent'
  <2>1. ActsAlone(p)
    BY <1>0, <1>3, <1>7, <1>10 DEF ActsAlone, AloneOn
  <2> QED BY <1>4, <1>5, <2>1, DeliveryKept DEF Delivering
<1> QED BY <1>7, <1>8, <1>9, <1>11, <1>12

\* A Start takes over: the Stop it answers is the one its reservation has seen acknowledged.
LEMMA ResumesIsFresh ==
  ASSUME SaInv, NEW p \in SaProcs, saProc[p].pc \in Reserving, Resumes(p)
  PROVE  saProc[p].fresh
<1> USE DEF SaInv
<1>1. T(p) \in SaTxs /\ saProc[p].res \in Reservation
  BY DEF UnderWay, Reserving
<1>2. saProc[p].res.serial \in Nat /\ saProc[p].res.ack \in Nat /\ saTx[T(p)].serial \in Nat
  BY <1>1 DEF Reservation, RowsOK, TxRow
<1>3. saProc[p].res.serial = saProc[p].res.ack /\ saProc[p].res.serial = saTx[T(p)].serial
  BY DEF Resumes
<1>4. ~saProc[p].fresh => saProc[p].res.ack < saProc[p].res.serial \/ saProc[p].res.serial < saTx[T(p)].serial
  BY DEF FreshReservation
<1> QED BY <1>2, <1>3, <1>4

\* What such a Start makes of the row.
LEMMA TakeOver ==
  ASSUME SaInv, Shaped, NEW p \in SaProcs, saProc[p].pc \in Reserving, ReservationsStay,
         saTx[T(p)].stop => Resumes(p),
         \A u \in SaTxs \ {T(p)} : saTx'[u] = saTx[u] /\ saHist'[u] = saHist[u],
         saTx'[T(p)].serial = saTx[T(p)].serial, saTx'[T(p)].ack = saTx[T(p)].ack, ~saTx'[T(p)].stop,
         saHist'[T(p)].stop = IF saProc[p].fresh THEN "none" ELSE saHist[T(p)].stop
  PROVE  StopOnRow' /\ FreshReservation'
<1> USE DEF SaInv
<1> DEFINE t == T(p)
<1>w. SaTxs' = SaTxs
  BY SameWorld DEF Shaped
<1>1. t \in SaTxs
  BY DEF UnderWay, Reserving
<1>2. saHist'[t].stop = "none"
  <2>1. CASE saTx[t].stop
    BY <2>1, ResumesIsFresh
  <2>2. CASE ~saTx[t].stop
    BY <1>1, <2>2 DEF StopOnRow
  <2> QED BY <2>1, <2>2
<1>3. StopOnRow'
  <2>1. ASSUME NEW u \in SaTxs
        PROVE  /\ saTx'[u].ack <= saTx'[u].serial
               /\ saHist'[u].stop # "none" => saTx'[u].stop
               /\ saHist'[u].stop = "asked" => saTx'[u].ack < saTx'[u].serial
    <3>1. CASE u = t
      BY <1>1, <1>2, <3>1 DEF StopOnRow
    <3>2. CASE u # t
      BY <3>2 DEF StopOnRow
    <3> QED BY <3>1, <3>2
  <2> QED BY <1>w, <2>1 DEF StopOnRow
<1>4. FreshReservation'
  <2>1. ASSUME NEW q \in SaProcs, saProc'[q].pc \in Reserving
        PROVE  LET res == saProc'[q].res  row == saTx'[T(q)']
               IN /\ res.ack <= res.serial /\ res.serial <= row.serial
                  /\ ~saProc'[q].fresh => res.ack < res.serial \/ res.serial < row.serial
    <3>1. /\ saProc[q].pc \in Reserving /\ T(q)' = T(q) /\ saProc'[q].res = saProc[q].res
          /\ saProc'[q].fresh = saProc[q].fresh
      BY <2>1 DEF ReservationsStay, T
    <3>2. T(q) \in SaTxs
      BY <3>1 DEF UnderWay, Reserving
    <3>3. saTx'[T(q)].serial = saTx[T(q)].serial
      BY <3>2
    <3> QED BY <3>1, <3>3 DEF FreshReservation
  <2> QED BY <2>1 DEF FreshReservation
<1> QED BY <1>3, <1>4

\* A reservation that meets a Stop acknowledges it and ends (stop_reserved): the row
\* is stopped, the others are as before and no delivery begins.
LEMMA AcknowledgedRow ==
  ASSUME SaInv, NEW t \in SaTxs, saTx' = [saTx EXCEPT ![t] = Acknowledged(saTx[t])], saHist' = HistAck(t)
  PROVE  /\ saTx' \in [SaTxs -> TxRow] /\ saHist' \in [SaTxs -> HistRow]
         /\ \A u \in SaTxs : Answers(u) /\ saTx'[u].head = saTx[u].head
         /\ \A u \in SaTxs \ {t} : saTx'[u] = saTx[u]
         /\ saTx'[t].state = "stopped"
<1>1. saTx \in [SaTxs -> TxRow] /\ saTx[t] \in TxRow
  BY DEF SaInv, RowsOK
<1>2. Acknowledged(saTx[t]) \in TxRow
  BY <1>1, RowTyped
<1>3. /\ Acknowledged(saTx[t]).state = "stopped" /\ Acknowledged(saTx[t]).ack = saTx[t].serial
      /\ Acknowledged(saTx[t]).serial = saTx[t].serial /\ Acknowledged(saTx[t]).stop = saTx[t].stop
      /\ Acknowledged(saTx[t]).consumed = saTx[t].consumed /\ Acknowledged(saTx[t]).head = saTx[t].head
  BY <1>1 DEF Acknowledged, TxRow
<1>4. /\ HistAck(t) \in [SaTxs -> HistRow] /\ \A u \in SaTxs \ {t} : HistAck(t)[u] = saHist[u]
      /\ HistAck(t)[t].runs = saHist[t].runs
      /\ HistAck(t)[t].stop = IF saHist[t].stop = "asked" THEN "acked" ELSE saHist[t].stop
  BY HistAckTyped DEF SaInv
<1>5. saTx' \in [SaTxs -> TxRow] /\ saTx'[t] = Acknowledged(saTx[t]) /\ \A u \in SaTxs \ {t} : saTx'[u] = saTx[u]
  BY <1>1, <1>2
<1>6. Answers(t) /\ \A u \in SaTxs \ {t} : Answers(u)
  BY <1>3, <1>4, <1>5 DEF Answers
<1> QED BY <1>3, <1>4, <1>5, <1>6

\* Who holds the lease and ends, with its row answered, keeps the invariant.
LEMMA HolderEnds ==
  ASSUME SaInv, Shaped, NEW p \in SaProcs, saProc[p].pc \in Holding, Writable, Release(p),
         OthersKeep(p), saProc'[p].pc = "idle",
         \A u \in SaTxs \ {T(p)} : saTx'[u] = saTx[u],
         \A d \in SaDevices \ {D(p)} : saOwner'[d] = saOwner[d],
         saOwner'[D(p)].tx = saOwner[D(p)].tx,
         FatSpent' /\ StopOnRow' /\ FreshReservation'
  PROVE  SaInv'
<1> USE DEF SaInv
<1>1. T(p) \in SaTxs /\ "idle" \notin Holding /\ "idle" \notin Delivering
  BY DEF UnderWay, Holding, Delivering
<1>2. LeaseStep(p)
  BY <1>1, ReleaseTyped DEF LeaseStep
<1>3. RowsOK' /\ UnderWay' /\ LeaseHeld'
  BY <1>2, ShapedKeeps, LeaseKept
<1>4. OwnersApart'
  BY OwnersKept
<1>5. CommitAlone'
  BY CommitKept
<1>6. ActsAlone(p)
  BY <1>1, HolderAlone DEF ActsAlone
<1>7. DeliveryCurrent'
  BY <1>1, <1>6, DeliveryKept
<1> QED BY <1>3, <1>4, <1>5, <1>7

\* Its end, when it knows of no Stop that the others do not.
LEMMA EndsShaped ==
  ASSUME SaInv, NEW p \in SaProcs, saProc[p].pc \in Holding, Release(p), SaEnd(p),
         saWorld' = saWorld, saLeft' \in [starts : Nat, stops : Nat, crashes : Nat],
         saTx' \in [SaTxs -> TxRow], saHist' \in [SaTxs -> HistRow], saOwner' \in [SaDevices -> OwnerRow]
  PROVE  Shaped /\ ReservationsStay /\ OthersKeep(p) /\ saProc'[p].pc = "idle"
<1> USE DEF SaInv
<1>1. T(p) \in SaTxs
  BY DEF UnderWay, Holding
<1>2. /\ saProc' \in [SaProcs -> ProcRow] /\ OthersStay(p) /\ saProc'[p].pc = "idle"
      /\ \A q \in SaProcs : /\ saProc'[q].pc # "idle" => saProc'[q].tx \in SaTxs
                            /\ saProc'[q].pc \in Reserving => saProc'[q].res \in Reservation
  BY EndEffect
<1> QED BY <1>1, <1>2, ReleaseTyped, OnwardStays, OthersStayKeep DEF Shaped, Onward

\* claim keeps the invariant, whether it goes on or ends with a Stop acknowledged.
LEMMA ClaimKeeps ==
  ASSUME SaInv, NEW p \in SaProcs, Claim(p)
  PROVE  SaInv'
<1> USE DEF SaInv
<1> DEFINE t == T(p)  d == D(p)  row == saTx[t]
<1>0. /\ saProc[p].pc = "claim" /\ Writable /\ t \in SaTxs /\ d \in SaDevices /\ ~Spent(p)
      /\ row.state \in SaResumable /\ saOwner[d].tx = t
      /\ saOwner' = [saOwner EXCEPT ![d] = [saOwner[d] EXCEPT !.attempt = p]]
      /\ saWorld' = saWorld /\ saLeft' = saLeft
  BY Names DEF Claim, UnderWay, D
<1>c. /\ "claim" \in Holding /\ "claim" \in Reserving /\ "check" \in Holding /\ "check" \in SaPcs
      /\ "check" \notin Reserving /\ "check" \in Delivering
  BY DEF Holding, Reserving, SaPcs, Delivering
<1>r. /\ saTx \in [SaTxs -> TxRow] /\ saHist \in [SaTxs -> HistRow] /\ saOwner \in [SaDevices -> OwnerRow]
      /\ saLease \in [SaDevices -> SaProcs \cup {"none"}] /\ saProc \in [SaProcs -> ProcRow]
      /\ saLeft \in [starts : Nat, stops : Nat, crashes : Nat]
  BY DEF RowsOK
<1>s. row \in TxRow /\ saHist[t] \in HistRow /\ saOwner[d] \in OwnerRow /\ saProc[p] \in ProcRow
  BY <1>0, <1>r
<1>o. /\ saOwner' \in [SaDevices -> OwnerRow] /\ \A e \in SaDevices \ {d} : saOwner'[e] = saOwner[e]
      /\ saOwner'[d] = [tx |-> t, attempt |-> p]
  <2>1. [saOwner[d] EXCEPT !.attempt = p] = [tx |-> t, attempt |-> p]
    BY <1>0, <1>s DEF OwnerRow
  <2>2. [tx |-> t, attempt |-> p] \in OwnerRow
    BY <1>0 DEF OwnerRow
  <2> QED BY <1>0, <1>r, <2>1, <2>2
<1>1. CASE row.stop /\ ~Resumes(p)
  <2>1. saTx' = [saTx EXCEPT ![t] = Acknowledged(saTx[t])] /\ saHist' = HistAck(t) /\ Release(p) /\ SaEnd(p)
    BY <1>1 DEF Claim
  <2>2. /\ saTx' \in [SaTxs -> TxRow] /\ saHist' \in [SaTxs -> HistRow]
        /\ \A u \in SaTxs : Answers(u)
        /\ \A u \in SaTxs \ {t} : saTx'[u] = saTx[u]
    BY <1>0, <2>1, AcknowledgedRow
  <2>3. Shaped /\ ReservationsStay /\ OthersKeep(p) /\ saProc'[p].pc = "idle"
    BY <1>0, <1>c, <1>o, <1>r, <2>1, <2>2, EndsShaped
  <2>4. FatSpent' /\ StopOnRow' /\ FreshReservation'
    BY <2>2, <2>3, AnswersKept
  <2>5. saOwner'[d].tx = saOwner[d].tx
    BY <1>0, <1>o
  <2> HIDE DEF t, d, row
  <2> QED BY <1>0, <1>c, <1>o, <2>1, <2>2, <2>3, <2>4, <2>5, HolderEnds DEF t, d
<1>2. CASE ~(row.stop /\ ~Resumes(p))
  <2>1. /\ saTx' = [saTx EXCEPT ![t] = [row EXCEPT !.state = "starting", !.stop = FALSE,
                                                   !.consumed = SessionOnly(t)]]
        /\ saHist' = [saHist EXCEPT ![t].runs = IF @ < 2 THEN @ + 1 ELSE @,
                                    ![t].stop = IF saProc[p].fresh THEN "none" ELSE @]
        /\ saProc' = [saProc EXCEPT ![p].pc = "check", ![p].head = row.head]
        /\ saLease' = saLease
    BY <1>2 DEF Claim
  <2> DEFINE new == [row EXCEPT !.state = "starting", !.stop = FALSE, !.consumed = SessionOnly(t)]
             n == IF saHist[t].runs < 2 THEN saHist[t].runs + 1 ELSE saHist[t].runs
             s == IF saProc[p].fresh THEN "none" ELSE saHist[t].stop
             h == [saHist[t] EXCEPT !.runs = n, !.stop = s]
             pr == [saProc[p] EXCEPT !.pc = "check", !.head = row.head]
  <2>2. "starting" \in SaStates /\ "starting" \in SaRunning /\ FALSE \in BOOLEAN /\ SessionOnly(t) \in BOOLEAN
        /\ n \in 0..2 /\ s \in {"none", "asked", "acked"} /\ row.head \in 0..SaHead
    <3>1. saHist[t].runs \in 0..2 /\ saHist[t].stop \in {"none", "asked", "acked"} /\ row.head \in 0..SaHead
      BY <1>s DEF HistRow, TxRow
    <3> QED BY <3>1 DEF SaStates, SaResumable, SaRunning, SessionOnly
  <2>3. new \in TxRow /\ new.state = "starting" /\ new.stop = FALSE /\ new.serial = row.serial
        /\ new.ack = row.ack /\ new.head = row.head /\ new.consumed = SessionOnly(t)
    BY <1>s, <2>2, Zenon DEF TxRow
  <2>h. saHist' = [saHist EXCEPT ![t] = h]
    BY <1>0, <1>r, <2>1, Zenon
  <2>t. saTx' = [saTx EXCEPT ![t] = new]
    BY <2>1
  <2> HIDE DEF n, s
  <2>4. h \in HistRow /\ h.runs = n /\ h.stop = s
    BY <1>s, <2>2, Zenon DEF HistRow
  <2>5. pr \in ProcRow /\ pr.pc = "check" /\ pr.tx = saProc[p].tx /\ pr.res = saProc[p].res
        /\ pr.fresh = saProc[p].fresh /\ pr.head = row.head
    BY <1>c, <1>s, <2>2, Zenon DEF ProcRow
  <2>p. saProc' = [saProc EXCEPT ![p] = pr]
    BY <1>r, <2>1, Zenon
  <2> HIDE DEF new, h, pr
  <2>6. /\ saTx' \in [SaTxs -> TxRow] /\ saTx'[t] = new /\ \A u \in SaTxs \ {t} : saTx'[u] = saTx[u]
        /\ saHist' \in [SaTxs -> HistRow] /\ saHist'[t] = h /\ \A u \in SaTxs \ {t} : saHist'[u] = saHist[u]
        /\ saProc' \in [SaProcs -> ProcRow] /\ saProc'[p] = pr /\ OthersStay(p)
    <3>1. saTx' \in [SaTxs -> TxRow] /\ saTx'[t] = new /\ \A u \in SaTxs \ {t} : saTx'[u] = saTx[u]
      BY <1>0, <1>r, <2>3, <2>t
    <3>2. saHist' \in [SaTxs -> HistRow] /\ saHist'[t] = h /\ \A u \in SaTxs \ {t} : saHist'[u] = saHist[u]
      BY <1>0, <1>r, <2>4, <2>h
    <3>3. saProc' \in [SaProcs -> ProcRow] /\ saProc'[p] = pr /\ OthersStay(p)
      BY <1>r, <2>5, <2>p DEF OthersStay
    <3> QED BY <3>1, <3>2, <3>3
  <2>7. Shaped
    <3>1. \A q \in SaProcs : /\ saProc'[q].pc # "idle" => saProc'[q].tx \in SaTxs
                             /\ saProc'[q].pc \in Reserving => saProc'[q].res \in Reservation
      BY <1>0, <1>c, <2>5, <2>6 DEF UnderWay, T, OthersStay
    <3> QED BY <1>0, <1>o, <1>r, <2>1, <2>6, <3>1 DEF Shaped
  <2>8. OthersKeep(p) /\ RowsOK' /\ UnderWay'
    BY <2>6, <2>7, OthersStayKeep, ShapedKeeps
  <2>9. LeaseHeld'
    <3>1. LeaseStep(p)
      BY <1>0, <1>c, <2>1, <2>5, <2>6 DEF LeaseStep, T
    <3> QED BY <2>7, <2>8, <3>1, LeaseKept
  <2>10. OwnersApart'
    <3>1. \A e \in SaDevices : saOwner'[e].tx \in {saOwner[e].tx, "none"}
      BY <1>0, <1>o
    <3> QED BY <2>7, <3>1, OwnersKept
  <2>11. CommitAlone'
    <3>1. saProc'[p].pc # "commit"
      BY <2>5, <2>6
    <3> QED BY <1>0, <2>8, <3>1, CommitKept
  <2>12. DeliveryCurrent'
    <3>1. AloneOn(p)
      BY <1>0, <1>c, HolderAlone
    <3>2. ActsAlone(p)
      BY <1>0, <1>o, <2>6, <2>8, <3>1 DEF ActsAlone
    <3>3. DeliversOn(p)
      BY <1>o, <2>2, <2>3, <2>5, <2>6 DEF DeliversOn, T
    <3> QED BY <2>7, <3>2, <3>3, DeliveryKept
  <2>13. FatSpent'
    <3>1. ASSUME NEW u \in SaTxs, SessionOnly(u)
          PROVE  saHist'[u].runs <= IF saTx'[u].consumed THEN 1 ELSE 0
      <4>1. saHist[u].runs <= IF saTx[u].consumed THEN 1 ELSE 0
        BY <3>1 DEF FatSpent
      <4>2. CASE u = t
        <5>1. ~row.consumed
          BY <1>0, <3>1, <4>2 DEF Spent
        <5>2. saHist[t].runs <= 0 /\ saHist[t].runs \in 0..2
          BY <1>s, <4>1, <4>2, <5>1 DEF HistRow
        <5>3. n = 1
          BY <5>2 DEF n
        <5>4. saTx'[u].consumed /\ saHist'[u].runs = n
          BY <2>3, <2>4, <2>6, <3>1, <4>2
        <5> QED BY <5>3, <5>4
      <4>3. CASE u # t
        BY <2>6, <4>1, <4>3
      <4> QED BY <4>2, <4>3
    <3> QED BY <2>7, <3>1, SameWorld DEF FatSpent, SessionOnly, Shaped
  <2>14. StopOnRow' /\ FreshReservation'
    <3>1. ReservationsStay
      BY <1>c, <2>5, <2>6 DEF ReservationsStay, OthersStay
    <3>2. saHist'[t].stop = IF saProc[p].fresh THEN "none" ELSE saHist[t].stop
      BY <2>4, <2>6 DEF s
    <3>3. saTx'[t].serial = saTx[t].serial /\ saTx'[t].ack = saTx[t].ack /\ ~saTx'[t].stop
      BY <2>3, <2>6
    <3>4. \A u \in SaTxs \ {t} : saTx'[u] = saTx[u] /\ saHist'[u] = saHist[u]
      BY <2>6
    <3>5. saTx[t].stop => Resumes(p)
      BY <1>2
    <3>6. saProc[p].pc \in Reserving
      BY <1>0, <1>c
    <3> HIDE DEF t, row
    <3> QED BY <2>7, <3>1, <3>2, <3>3, <3>4, <3>5, <3>6, TakeOver DEF t
  <2> QED BY <2>8, <2>9, <2>10, <2>11, <2>12, <2>13, <2>14
<1> QED BY <1>1, <1>2

\* A Start that is refused before it claims: a pending Stop is acknowledged, or the outcome
\* recorded and the Stop it answers cleared.
LEMMA RefuseKeeps ==
  ASSUME SaInv, NEW p \in SaProcs, NEW o \in {"waiting", "failed"}, RefusePreclaim(p, o)
  PROVE  SaInv'
<1> USE DEF SaInv
<1> DEFINE t == T(p)  row == saTx[t]
<1>0. /\ saProc[p].pc = "preflight" /\ Writable /\ t \in SaTxs /\ Release(p) /\ SaEnd(p)
      /\ saWorld' = saWorld /\ saOwner' = saOwner /\ saLeft' = saLeft
  BY DEF RefusePreclaim, UnderWay
<1>c. "preflight" \in Holding /\ "preflight" \in Reserving
  BY DEF Holding, Reserving
<1>r. /\ saTx \in [SaTxs -> TxRow] /\ saHist \in [SaTxs -> HistRow] /\ saOwner \in [SaDevices -> OwnerRow]
      /\ saLeft \in [starts : Nat, stops : Nat, crashes : Nat]
  BY DEF RowsOK
<1>e. ASSUME saTx' \in [SaTxs -> TxRow], saHist' \in [SaTxs -> HistRow], \A u \in SaTxs \ {t} : saTx'[u] = saTx[u],
             Shaped => FatSpent' /\ StopOnRow' /\ FreshReservation'
      PROVE  SaInv'
  <2>1. Shaped /\ OthersKeep(p) /\ saProc'[p].pc = "idle"
    BY <1>0, <1>c, <1>e, <1>r, EndsShaped
  <2> QED BY <1>0, <1>c, <1>e, <2>1, HolderEnds
<1>y. Shaped => ReservationsStay
  <2>1. OthersStay(p) /\ saProc'[p].pc = "idle"
    BY <1>0, EndEffect
  <2> QED BY <2>1, OnwardStays DEF Onward
<1>a. ASSUME \A u \in SaTxs : Answers(u), Shaped
      PROVE  FatSpent' /\ StopOnRow' /\ FreshReservation'
  BY <1>a, <1>y, AnswersKept
<1>1. CASE row.state \notin SaResumable \/ saOwner[D(p)].tx # t
  <2>1. saTx' = saTx /\ saHist' = saHist
    BY <1>1 DEF RefusePreclaim
  <2> QED BY <1>a, <1>e, <1>r, <2>1, UntouchedAnswers
<1>2. CASE ~(row.state \notin SaResumable \/ saOwner[D(p)].tx # t) /\ row.stop /\ ~Resumes(p)
  <2>1. saTx' = [saTx EXCEPT ![t] = Acknowledged(saTx[t])] /\ saHist' = HistAck(t)
    BY <1>2 DEF RefusePreclaim
  <2>2. /\ saTx' \in [SaTxs -> TxRow] /\ saHist' \in [SaTxs -> HistRow]
        /\ \A u \in SaTxs : Answers(u)
        /\ \A u \in SaTxs \ {t} : saTx'[u] = saTx[u]
    BY <1>0, <2>1, AcknowledgedRow
  <2> QED BY <1>a, <1>e, <2>2
<1>3. CASE ~(row.state \notin SaResumable \/ saOwner[D(p)].tx # t) /\ ~(row.stop /\ ~Resumes(p))
  <2> DEFINE new == [row EXCEPT !.state = o, !.stop = FALSE]
             s == IF saProc[p].fresh THEN "none" ELSE saHist[t].stop
             h == [saHist[t] EXCEPT !.stop = s]
  <2>1. saTx' = [saTx EXCEPT ![t] = new] /\ saHist' = [saHist EXCEPT ![t].stop = IF saProc[p].fresh THEN "none" ELSE @]
    BY <1>3 DEF RefusePreclaim
  <2>2. row \in TxRow /\ saHist[t] \in HistRow /\ o \in SaStates /\ FALSE \in BOOLEAN
    BY <1>0, <1>r DEF SaStates, SaResumable, SaRunning, SaTerminal
  <2>3. /\ new \in TxRow /\ new.stop = FALSE /\ new.serial = row.serial /\ new.ack = row.ack
        /\ new.consumed = row.consumed
    BY <2>2, Zenon DEF TxRow
  <2>4. saHist' = [saHist EXCEPT ![t] = h]
    BY <1>0, <1>r, <2>1, Zenon
  <2>5. s \in {"none", "asked", "acked"}
    BY <2>2 DEF HistRow
  <2> HIDE DEF s
  <2>6. h \in HistRow /\ h.stop = s /\ h.runs = saHist[t].runs
    BY <2>2, <2>5 DEF HistRow
  <2> HIDE DEF new, h
  <2>7. /\ saTx' \in [SaTxs -> TxRow] /\ saTx'[t] = new /\ \A u \in SaTxs \ {t} : saTx'[u] = saTx[u]
    BY <1>0, <1>r, <2>1, <2>3
  <2>8. /\ saHist' \in [SaTxs -> HistRow] /\ saHist'[t] = h /\ \A u \in SaTxs \ {t} : saHist'[u] = saHist[u]
    BY <1>0, <1>r, <2>4, <2>6
  <2>9. ASSUME Shaped
        PROVE  FatSpent' /\ StopOnRow' /\ FreshReservation'
    <3>1. \A u \in SaTxs : saTx'[u].consumed = saTx[u].consumed /\ saHist'[u].runs = saHist[u].runs
      BY <2>3, <2>6, <2>7, <2>8
    <3>2. FatSpent'
      BY <2>9, <3>1, FatKept
    <3>3. saHist'[t].stop = IF saProc[p].fresh THEN "none" ELSE saHist[t].stop
      BY <2>6, <2>8 DEF s
    <3>4. saTx'[t].serial = saTx[t].serial /\ saTx'[t].ack = saTx[t].ack /\ ~saTx'[t].stop
      BY <2>3, <2>7
    <3>5. \A u \in SaTxs \ {t} : saTx'[u] = saTx[u] /\ saHist'[u] = saHist[u]
      BY <2>7, <2>8
    <3>6. (saTx[t].stop => Resumes(p)) /\ saProc[p].pc \in Reserving
      BY <1>0, <1>3, <1>c
    <3> HIDE DEF t, row
    <3>7. StopOnRow' /\ FreshReservation'
      BY <1>y, <2>9, <3>3, <3>4, <3>5, <3>6, TakeOver DEF t
    <3> QED BY <3>2, <3>7
  <2> QED BY <1>e, <2>7, <2>8, <2>9
<1> QED BY <1>1, <1>2, <1>3

\* An interrupt during the inspection of the sources: the Stop is asked and acknowledged at once.
LEMMA InterruptKeeps ==
  ASSUME SaInv, NEW p \in SaProcs, InterruptPreclaim(p)
  PROVE  SaInv'
<1> USE DEF SaInv
<1> DEFINE t == T(p)  row == saTx[t]  reused == row.stop /\ ~Resumes(p)
<1>0. /\ saProc[p].pc = "preflight" /\ Writable /\ t \in SaTxs /\ Release(p)
      /\ saWorld' = saWorld /\ saOwner' = saOwner /\ saLeft' = [saLeft EXCEPT !.stops = @ - 1] /\ saLeft.stops > 0
      /\ saProc' = [q \in SaProcs |->
             IF q = p THEN SaIdle
             ELSE [saProc[q] EXCEPT !.fresh = @ /\ (T(q) # t \/ reused)]]
  BY DEF InterruptPreclaim, UnderWay
<1>c. "preflight" \in Holding /\ "preflight" \in Reserving /\ "idle" \notin Reserving
  BY DEF Holding, Reserving
<1>r. /\ saTx \in [SaTxs -> TxRow] /\ saHist \in [SaTxs -> HistRow] /\ saOwner \in [SaDevices -> OwnerRow]
  BY DEF RowsOK
<1>s. row \in TxRow /\ saHist[t] \in HistRow /\ row.serial \in Nat /\ row.ack \in Nat
  <2>1. row \in TxRow /\ saHist[t] \in HistRow
    BY <1>0, <1>r
  <2> QED BY <2>1 DEF TxRow
<1> HIDE DEF reused
<1>1. \A q \in SaProcs \ {p} :
        /\ saProc'[q] \in ProcRow
        /\ saProc'[q].pc = saProc[q].pc /\ saProc'[q].tx = saProc[q].tx
        /\ saProc'[q].res = saProc[q].res /\ saProc'[q].head = saProc[q].head
        /\ saProc'[q].fresh = (saProc[q].fresh /\ (T(q) # t \/ reused))
  <2> TAKE q \in SaProcs \ {p}
  <2>1. saProc[q] \in ProcRow
    BY DEF RowsOK
  <2>2. saProc[q].fresh \in BOOLEAN /\ reused \in BOOLEAN
    BY <2>1 DEF ProcRow, reused
  <2> DEFINE f == saProc[q].fresh /\ (T(q) # t \/ reused)
  <2>3. saProc'[q] = [saProc[q] EXCEPT !.fresh = f]
    BY <1>0
  <2>4. f \in BOOLEAN
    BY <2>2
  <2> HIDE DEF f
  <2>5. /\ saProc'[q] \in ProcRow /\ saProc'[q].fresh = f
        /\ saProc'[q].pc = saProc[q].pc /\ saProc'[q].tx = saProc[q].tx
        /\ saProc'[q].res = saProc[q].res /\ saProc'[q].head = saProc[q].head
    BY <2>1, <2>3, <2>4 DEF ProcRow
  <2> QED BY <2>5 DEF f
<1>2. SaIdle \in ProcRow /\ SaIdle.pc = "idle"
  BY Names, SMTT(20) DEF SaIdle, ProcRow, SaPcs
<1>3. saProc' \in [SaProcs -> ProcRow] /\ saProc'[p].pc = "idle" /\ OthersKeep(p)
  <2>1. saProc'[p] = SaIdle
    BY <1>0
  <2>2. \A q \in SaProcs : saProc'[q] \in ProcRow
    BY <1>1, <1>2, <2>1
  <2>3. saProc' \in [SaProcs -> ProcRow]
    BY <1>0, <2>2
  <2>4. OthersKeep(p)
    BY <1>1 DEF OthersKeep
  <2> QED BY <1>2, <2>1, <2>3, <2>4
<1>4. ASSUME saTx' \in [SaTxs -> TxRow], saHist' \in [SaTxs -> HistRow]
      PROVE  Shaped
  <2>1. \A q \in SaProcs : /\ saProc'[q].pc # "idle" => saProc'[q].tx \in SaTxs
                           /\ saProc'[q].pc \in Reserving => saProc'[q].res \in Reservation
    BY <1>c, <1>3 DEF OthersKeep, UnderWay, T
  <2>2. saLeft' \in [starts : Nat, stops : Nat, crashes : Nat]
    BY <1>0, LeftTyped
  <2>3. saLease' \in [SaDevices -> SaProcs \cup {"none"}]
    BY <1>0, ReleaseTyped
  <2> QED BY <1>0, <1>3, <1>4, <1>r, <2>1, <2>2, <2>3 DEF Shaped
<1>5. CASE reused
  <2>1. saTx' = [saTx EXCEPT ![t] = Acknowledged(saTx[t])] /\ saHist' = HistAck(t)
    BY <1>5 DEF InterruptPreclaim, reused
  <2>2. /\ saTx' \in [SaTxs -> TxRow] /\ saHist' \in [SaTxs -> HistRow]
        /\ \A u \in SaTxs : Answers(u)
        /\ \A u \in SaTxs \ {t} : saTx'[u] = saTx[u]
    BY <1>0, <2>1, AcknowledgedRow
  <2>3. Shaped
    BY <1>4, <2>2
  <2>4. ReservationsStay
    <3>1. \A q \in SaProcs \ {p} : saProc'[q].fresh = saProc[q].fresh
      <4>1. \A q \in SaProcs : saProc[q].fresh \in BOOLEAN
        BY DEF RowsOK, ProcRow
      <4> QED BY <1>1, <1>5, <4>1
    <3> QED BY <1>1, <1>3, <1>c, <3>1 DEF ReservationsStay
  <2>5. FatSpent' /\ StopOnRow' /\ FreshReservation'
    BY <2>2, <2>3, <2>4, AnswersKept
  <2> QED BY <1>0, <1>3, <1>c, <2>2, <2>3, <2>5, HolderEnds
<1>6. CASE ~reused
  <2> DEFINE ask == Asked(row)  new == Acknowledged(ask)  h == [saHist[t] EXCEPT !.stop = "acked"]
  <2>1. saTx' = [saTx EXCEPT ![t] = new] /\ saHist' = [saHist EXCEPT ![t] = h]
    BY <1>6 DEF InterruptPreclaim, reused
  <2>2. /\ ask \in TxRow /\ ask.serial = row.serial + 1 /\ ask.stop = TRUE /\ ask.consumed = row.consumed
    <3>1. /\ Asked(row).serial = row.serial + 1 /\ Asked(row).stop = TRUE /\ Asked(row).consumed = row.consumed
      BY <1>s, Zenon DEF Asked, TxRow
    <3> QED BY <1>s, <3>1, RowTyped
  <2> HIDE DEF ask
  <2>3. /\ new \in TxRow /\ new.serial = row.serial + 1 /\ new.stop = TRUE /\ new.ack = row.serial + 1
        /\ new.consumed = row.consumed
    <3>1. Acknowledged(ask).serial = ask.serial /\ Acknowledged(ask).stop = ask.stop
          /\ Acknowledged(ask).ack = ask.serial /\ Acknowledged(ask).consumed = ask.consumed
      BY <2>2 DEF Acknowledged, TxRow
    <3> QED BY <2>2, <3>1, RowTyped
  <2>4. h \in HistRow /\ h.stop = "acked" /\ h.runs = saHist[t].runs
    BY <1>s DEF HistRow
  <2> HIDE DEF new, h
  <2>5. /\ saTx' \in [SaTxs -> TxRow] /\ saTx'[t] = new /\ \A u \in SaTxs \ {t} : saTx'[u] = saTx[u]
    BY <1>0, <1>r, <2>1, <2>3
  <2>6. /\ saHist' \in [SaTxs -> HistRow] /\ saHist'[t] = h /\ \A u \in SaTxs \ {t} : saHist'[u] = saHist[u]
    BY <1>0, <1>r, <2>1, <2>4
  <2>7. Shaped /\ SaTxs' = SaTxs
    BY <1>4, <2>5, <2>6, SameWorld DEF Shaped
  <2>8. FatSpent'
    <3>1. \A u \in SaTxs : saTx'[u].consumed = saTx[u].consumed /\ saHist'[u].runs = saHist[u].runs
      BY <2>3, <2>4, <2>5, <2>6
    <3> QED BY <2>7, <3>1, FatKept
  <2>9. StopOnRow'
    <3>1. ASSUME NEW u \in SaTxs
          PROVE  /\ saTx'[u].ack <= saTx'[u].serial
                 /\ saHist'[u].stop # "none" => saTx'[u].stop
                 /\ saHist'[u].stop = "asked" => saTx'[u].ack < saTx'[u].serial
      <4>1. CASE u = t
        BY <1>s, <2>3, <2>4, <2>5, <2>6, <4>1
      <4>2. CASE u # t
        BY <2>5, <2>6, <4>2 DEF StopOnRow
      <4> QED BY <4>1, <4>2
    <3> QED BY <2>7, <3>1 DEF StopOnRow
  <2>10. FreshReservation'
    <3>1. ASSUME NEW q \in SaProcs, saProc'[q].pc \in Reserving
          PROVE  LET res == saProc'[q].res  rw == saTx'[T(q)']
                 IN /\ res.ack <= res.serial /\ res.serial <= rw.serial
                    /\ ~saProc'[q].fresh => res.ack < res.serial \/ res.serial < rw.serial
      <4>1. q # p /\ saProc[q].pc \in Reserving /\ T(q)' = T(q) /\ saProc'[q].res = saProc[q].res
        BY <1>1, <1>3, <1>c, <3>1 DEF T
      <4>2. /\ saProc[q].res.ack <= saProc[q].res.serial /\ saProc[q].res.serial <= saTx[T(q)].serial
            /\ ~saProc[q].fresh => \/ saProc[q].res.ack < saProc[q].res.serial
                                   \/ saProc[q].res.serial < saTx[T(q)].serial
        BY <4>1 DEF FreshReservation
      <4>3. saProc[q].res.ack \in Nat /\ saProc[q].res.serial \in Nat /\ T(q) \in SaTxs
        BY <4>1 DEF UnderWay, Reservation, Reserving
      <4>4. CASE T(q) = t
        BY <1>s, <2>3, <2>5, <4>1, <4>2, <4>3, <4>4
      <4>5. CASE T(q) # t
        <5>1. saProc'[q].fresh = saProc[q].fresh
          <6>1. saProc[q].fresh \in BOOLEAN
            BY DEF RowsOK, ProcRow
          <6> QED BY <1>1, <4>1, <4>5, <6>1
        <5> QED BY <2>5, <4>1, <4>2, <4>3, <4>5, <5>1
      <4> QED BY <4>4, <4>5
    <3> QED BY <3>1 DEF FreshReservation
  <2> QED BY <1>0, <1>3, <1>c, <2>5, <2>7, <2>8, <2>9, <2>10, HolderEnds
<1> QED BY <1>5, <1>6

\* The first state satisfies the invariant.
LEMMA InitHolds ==
  ASSUME SaInit
  PROVE  SaInv
<1>1. /\ saWorld \in SaWorlds /\ "none" \notin SaProcs /\ SaHead \in Nat \ {0} /\ "none" \notin SaTxs
      /\ saLeft \in [starts : Nat, stops : Nat, crashes : Nat]
  BY SliceAuthorityNames DEF SaInit, SaTxs
<1> DEFINE row == [state |-> "ready", stop |-> FALSE, serial |-> 0, ack |-> 0, consumed |-> FALSE, head |-> 0]
           h == [stop |-> "none", runs |-> 0]
<1>2. /\ saTx = [t \in SaTxs |-> row] /\ saHist = [t \in SaTxs |-> h]
      /\ saOwner = [d \in SaDevices |-> SaNoOwner] /\ saLease = [d \in SaDevices |-> "none"]
      /\ saProc = [p \in SaProcs |-> SaIdle]
  BY DEF SaInit, SaDevices
<1>3. row \in TxRow /\ row.ack = 0 /\ row.serial = 0 /\ row.stop = FALSE
  BY <1>1 DEF TxRow, SaStates
<1>4. h \in HistRow /\ h.stop = "none" /\ h.runs = 0
  BY DEF HistRow
<1>5. SaNoOwner \in OwnerRow /\ SaNoOwner.tx = "none"
  BY DEF SaNoOwner, OwnerRow
<1>6. SaIdle \in ProcRow /\ SaIdle.pc = "idle"
  BY <1>1, SMTT(20) DEF SaIdle, ProcRow, SaPcs
<1> HIDE DEF row, h
<1>7. RowsOK
  BY <1>1, <1>2, <1>3, <1>4, <1>5, <1>6 DEF RowsOK
<1>8. \A p \in SaProcs : saProc[p].pc = "idle"
  BY <1>2, <1>6
<1>9. "idle" \notin Holding \cup Reserving \cup Delivering
  BY DEF Holding, Reserving, Delivering
<1>10. UnderWay /\ LeaseHeld /\ OwnersApart /\ DeliveryCurrent /\ CommitAlone /\ FreshReservation
  BY <1>2, <1>5, <1>8, <1>9 DEF UnderWay, LeaseHeld, OwnersApart, DeliveryCurrent, CommitAlone, FreshReservation
<1>11. FatSpent /\ StopOnRow
  BY <1>2, <1>3, <1>4 DEF FatSpent, StopOnRow
<1> QED BY <1>7, <1>10, <1>11 DEF SaInv

\* Every step keeps the invariant.
LEMMA StepKeeps ==
  ASSUME SaInv, [SaNext]_saVars
  PROVE  SaInv'
<1>1. CASE UNCHANGED saVars
  <2>1. /\ saWorld' = saWorld /\ saTx' = saTx /\ saOwner' = saOwner /\ saLease' = saLease
        /\ saProc' = saProc /\ saHist' = saHist /\ saLeft' = saLeft
    BY <1>1 DEF saVars
  <2>2. RowsOK' /\ UnderWay' /\ OwnersApart'
    <3>1. Shaped
      BY <2>1 DEF Shaped, SaInv, RowsOK, UnderWay, T
    <3> QED BY <2>1, <3>1, ShapedKeeps, OwnersKept DEF SaInv
  <2>3. LeaseHeld' /\ DeliveryCurrent' /\ CommitAlone'
    BY <2>1 DEF SaInv, LeaseHeld, DeliveryCurrent, CommitAlone, Current, T, D, SaDevice, SaDevices, SaTxs
  <2>4. FatSpent' /\ StopOnRow' /\ FreshReservation'
    BY <2>1 DEF SaInv, FatSpent, StopOnRow, FreshReservation, SessionOnly, SaTxs, T
  <2> QED BY <2>2, <2>3, <2>4 DEF SaInv
<1>2. CASE \E t \in SaTxs : SaApprove(t) \/ RequestStop(t)
  BY <1>2, ApproveKeeps, AsksKeep
<1>3. ASSUME NEW p \in SaProcs, NEW t \in SaTxs, StartReserve(p, t)
      PROVE  SaInv'
  BY <1>3, StartReserveKeeps
<1>4. ASSUME NEW p \in SaProcs, SaAct(p)
      PROVE  SaInv'
  <2>1. CASE SaAgain(p)
    <3>1. T(p) \in SaTxs
      BY <2>1 DEF SaAgain, SaInv, UnderWay
    <3> QED BY <2>1, <3>1, StartReserveKeeps DEF SaAgain
  <2>2. CASE SaTooLate(p)
    BY <2>2, RefuseKeeps DEF SaTooLate
  <2>3. CASE Insert(p) \/ Claim(p) \/ AppendRecord(p) \/ CompleteRelease(p) \/ CompleteCommit(p) \/ AskAfterInterrupt(p)
    BY <2>3, InsertKeeps, ClaimKeeps, AppendKeeps, CompleteReleaseKeeps, CompleteCommitKeeps, AskAfterInterruptKeeps
  <2>4. CASE AcquireLease(p) \/ Preflight(p) \/ ClaimRefused(p) \/ CheckDestination(p)
    BY <2>4, MovesKeep
  <2>5. CASE Activate(p) \/ StopDelivery(p) \/ Verifying(p) \/ CloseDelivery(p)
    BY <2>5, DeliversKeep
  <2> QED BY <1>4, <2>1, <2>2, <2>3, <2>4, <2>5 DEF SaAct
<1>5. ASSUME NEW p \in SaProcs, Unexpected(p) \/ InterruptPreclaim(p) \/ InterruptStart(p) \/ SaCrash(p) \/ WaitDelivery(p)
      PROVE  SaInv'
  BY <1>5, MovesKeep, InterruptKeeps, DeliversKeep
<1>6. ASSUME NEW p \in SaProcs, NEW o \in {"waiting", "failed"}, RefusePreclaim(p, o) \/ RefuseDelivery(p, o)
      PROVE  SaInv'
  BY <1>6, RefuseKeeps, DeliversKeep
<1> QED BY <1>1, <1>2, <1>3, <1>4, <1>5, <1>6 DEF SaNext

\* The invariant of the durable rows, the lease and the processes holds however Starts, Stops,
\* interrupts and deaths interleave (slice.state.Store, slice.authority.Lease).
THEOREM AuthorityInvariant == SaSpec => []SaInv
<1>1. SaInit => SaInv
  BY InitHolds
<1>2. SaInv /\ [SaNext]_saVars => SaInv'
  BY StepKeeps
<1> QED BY <1>1, <1>2, PTL DEF SaSpec

-----------------------------------------------------------------------------
(* Deliveries exclude each other.                                          *)

\* The invariant keeps two deliveries apart.
LEMMA InvExcludes ==
  ASSUME SaInv
  PROVE  DeliveriesExclusive
<1> USE DEF SaInv
<1>n. "none" \notin SaProcs /\ "none" \notin SaTxs /\ \A t \in SaTxs : SaDevice(t) \in SaDevices
  BY Names
<1>1. SaTypeOK
  <2>1. ASSUME NEW t \in SaTxs
        PROVE  /\ saTx[t].state \in SaResumable \cup SaTerminal \cup {"ready"}
               /\ saTx[t].stop \in BOOLEAN /\ saTx[t].consumed \in BOOLEAN
               /\ saTx[t].ack \in 0..saTx[t].serial /\ saTx[t].head \in 0..SaHead
               /\ saHist[t].stop \in {"none", "asked", "acked"} /\ saHist[t].runs \in Nat
    <3>1. saTx[t] \in TxRow /\ saHist[t] \in HistRow
      BY DEF RowsOK
    <3>2. saTx[t].ack \in Nat /\ saTx[t].serial \in Nat /\ saTx[t].ack <= saTx[t].serial
      BY <3>1 DEF TxRow, StopOnRow
    <3> QED BY <3>1, <3>2 DEF TxRow, HistRow, SaStates
  <2>2. ASSUME NEW d \in DOMAIN saOwner
        PROVE  saOwner[d].tx \in SaTxs \cup {"none"} /\ saOwner[d].attempt \in SaProcs \cup {"none"}
    BY DEF RowsOK, OwnerRow
  <2>3. ASSUME NEW p \in SaProcs
        PROVE  /\ saProc[p].pc \in {"idle", "insert", "acquire", "commit", "interrupted", "again"} \cup Holding
               /\ saProc[p].pc \in Holding <=> \E d \in DOMAIN saLease : saLease[d] = p
    <3>1. saProc[p].pc \in SaPcs /\ DOMAIN saLease = SaDevices
      BY DEF RowsOK, ProcRow
    <3>2. ASSUME saProc[p].pc \in Holding
          PROVE  \E d \in DOMAIN saLease : saLease[d] = p
      <4>1. T(p) \in SaTxs /\ saLease[D(p)] = p
        BY <3>2 DEF UnderWay, LeaseHeld, Holding
      <4> QED BY <1>n, <3>1, <4>1 DEF D
    <3>3. ASSUME NEW d \in DOMAIN saLease, saLease[d] = p
          PROVE  saProc[p].pc \in Holding
      BY <1>n, <3>1, <3>3 DEF LeaseHeld
    <3> QED BY <3>1, <3>2, <3>3 DEF SaPcs
  <2> QED BY <2>1, <2>2, <2>3 DEF SaTypeOK
<1>2. OneDelivery
  <2>1. ASSUME NEW p \in SaProcs, saProc[p].pc \in Delivering, NEW q \in SaProcs \ {p}, saProc[q].pc \in Delivering
        PROVE  ~ClaimsOverlap(T(p), T(q))
    <3>1. saProc[p].pc \in Holding /\ saProc[p].pc # "idle" /\ saProc[q].pc # "idle"
      BY <2>1 DEF Holding, Delivering
    <3>2. T(p) \in SaTxs /\ T(q) \in SaTxs /\ D(p) \in SaDevices /\ D(q) \in SaDevices
      BY <1>n, <3>1 DEF UnderWay, D
    <3>3. saOwner[D(p)].tx = T(p) /\ saOwner[D(q)].tx = T(q)
      <4>1. saOwner[D(p)] = [tx |-> T(p), attempt |-> p] /\ saOwner[D(q)] = [tx |-> T(q), attempt |-> q]
        BY <2>1 DEF DeliveryCurrent, Current
      <4> QED BY <4>1
    <3>4. D(q) # D(p)
      BY <2>1, <3>1, HolderAlone DEF AloneOn
    <3> QED BY <1>n, <3>2, <3>3, <3>4 DEF OwnersApart
  <2> QED BY <2>1 DEF OneDelivery, DeliveryCurrent
<1>3. FatSpentOnce
  <2>1. ASSUME NEW t \in SaTxs, SessionOnly(t)
        PROVE  saHist[t].runs <= 1
    <3>1. saHist[t].runs \in 0..2 /\ saHist[t].runs <= IF saTx[t].consumed THEN 1 ELSE 0
      BY <2>1 DEF RowsOK, HistRow, FatSpent
    <3> QED BY <3>1
  <2> QED BY <2>1 DEF FatSpentOnce
<1> QED BY <1>1, <1>2, <1>3 DEF DeliveriesExclusive

\* Two deliveries never write at once to one destination, nor to one inside the other; each
\* has the published attempt and the head of its journal; a one-shot intent begins at most one
\* delivery, whatever dies (state.reserve, state.claim, authority.Lease).
THEOREM ExclusiveDeliveries == SaSpec => []DeliveriesExclusive
BY AuthorityInvariant, InvExcludes, PTL

-----------------------------------------------------------------------------
(* A Stop wins, is answered, and what is settled stays.                    *)

\* What a step may do to the row of t: only a delivery appends, only the commit of a
\* completion completes, and what is settled stays.
RowStep(t) ==
  /\ saTx'[t].head = saTx[t].head \/ \E p \in SaProcs : AppendRecord(p) /\ T(p) = t
  /\ \/ saTx'[t].state # "complete" \/ saTx[t].state = "complete"
     \/ \E p \in SaProcs : CompleteCommit(p) /\ T(p) = t
  /\ saTx[t].state \in SaTerminal => saTx'[t].state = saTx[t].state

\* A step that touches one row advances every row if it advances that one.
LEMMA RowStepOne ==
  ASSUME SaInv, NEW t \in SaTxs, \A u \in SaTxs \ {t} : saTx'[u] = saTx[u],
         saTx'[t].head = saTx[t].head, saTx'[t].state # "complete" \/ saTx[t].state = "complete",
         saTx[t].state \in SaTerminal => saTx'[t].state = saTx[t].state
  PROVE  \A u \in SaTxs : RowStep(u)
BY DEF RowStep

\* Every step advances every row.
LEMMA RowSteps ==
  ASSUME SaInv, [SaNext]_saVars
  PROVE  \A t \in SaTxs : RowStep(t)
<1> USE DEF SaInv
<1>q. ASSUME saTx' = saTx
      PROVE  \A t \in SaTxs : RowStep(t)
  BY <1>q DEF RowStep
<1>r. saTx \in [SaTxs -> TxRow]
  BY DEF RowsOK
<1>e. SaResumable \cap SaTerminal = {} /\ SaRunning \subseteq SaResumable /\ "ready" \notin SaTerminal
      /\ "complete" \in SaTerminal
  BY DEF SaResumable, SaRunning, SaTerminal
<1>1. ASSUME NEW t \in SaTxs, SaApprove(t)
      PROVE  \A u \in SaTxs : RowStep(u)
  <2>1. saTx[t].state = "ready" /\ saTx' = [saTx EXCEPT ![t] = [saTx[t] EXCEPT !.state = "approved"]]
    BY <1>1 DEF SaApprove
  <2>2. /\ \A u \in SaTxs \ {t} : saTx'[u] = saTx[u]
        /\ saTx'[t].head = saTx[t].head /\ saTx'[t].state = "approved"
    BY <1>r, <2>1 DEF TxRow
  <2> QED BY <1>e, <2>1, <2>2, RowStepOne
<1>2. ASSUME NEW t \in SaTxs, saTx' = [saTx EXCEPT ![t] = Asked(@)]
      PROVE  \A u \in SaTxs : RowStep(u)
  <2>1. saTx[t] \in TxRow /\ saTx'[t] = Asked(saTx[t]) /\ \A u \in SaTxs \ {t} : saTx'[u] = saTx[u]
    BY <1>2, <1>r
  <2>2. Asked(saTx[t]).head = saTx[t].head /\ Asked(saTx[t]).state = saTx[t].state
    BY <2>1, Zenon DEF Asked, TxRow
  <2> QED BY <2>1, <2>2, RowStepOne
<1>3. ASSUME NEW t \in SaTxs, saTx[t].state \in SaResumable,
             NEW row \in {r \in TxRow : r.head = saTx[t].head /\ r.state # "complete"},
             saTx' = [saTx EXCEPT ![t] = row]
      PROVE  \A u \in SaTxs : RowStep(u)
  <2>1. saTx'[t] = row /\ \A u \in SaTxs \ {t} : saTx'[u] = saTx[u]
    BY <1>3, <1>r
  <2> QED BY <1>3, <1>e, <2>1, RowStepOne
<1>a. \A t \in SaTxs : LET row == Acknowledged(saTx[t])
                       IN row \in TxRow /\ row.head = saTx[t].head /\ row.state # "complete"
  <2> TAKE t \in SaTxs
  <2>1. saTx[t] \in TxRow
    BY <1>r
  <2>2. Acknowledged(saTx[t]).head = saTx[t].head /\ Acknowledged(saTx[t]).state = "stopped"
    BY <2>1 DEF Acknowledged, TxRow
  <2> QED BY <2>1, <2>2, RowTyped
<1>4. ASSUME NEW p \in SaProcs, Insert(p)
      PROVE  \A u \in SaTxs : RowStep(u)
  <2>1. CASE saTx' = saTx
    BY <1>q, <2>1
  <2>2. CASE saTx' = [saTx EXCEPT ![T(p)].state = "starting"] /\ Reservable(T(p))
    <3>1. T(p) \in SaTxs /\ saTx[T(p)].state \in SaResumable
      BY <1>4, <2>2 DEF Insert, UnderWay, Reservable
    <3>2. saTx' = [saTx EXCEPT ![T(p)] = [saTx[T(p)] EXCEPT !.state = "starting"]]
      BY <2>2
    <3>3. LET row == [saTx[T(p)] EXCEPT !.state = "starting"]
          IN row \in TxRow /\ row.head = saTx[T(p)].head /\ row.state # "complete"
      BY <1>r, <3>1 DEF TxRow, SaStates, SaResumable, SaRunning
    <3> QED BY <1>3, <3>1, <3>2, <3>3
  <2> QED BY <1>4, <2>1, <2>2 DEF Insert
<1>5. ASSUME NEW p \in SaProcs, NEW o \in {"waiting", "failed"}, RefusePreclaim(p, o)
      PROVE  \A u \in SaTxs : RowStep(u)
  <2>0. T(p) \in SaTxs
    BY <1>5 DEF RefusePreclaim, UnderWay
  <2>1. CASE saTx' = saTx
    BY <1>q, <2>1
  <2>2. CASE saTx[T(p)].state \in SaResumable /\ saTx' = [saTx EXCEPT ![T(p)] = Acknowledged(saTx[T(p)])]
    BY <1>3, <1>a, <2>0, <2>2
  <2>3. CASE /\ saTx[T(p)].state \in SaResumable
             /\ saTx' = [saTx EXCEPT ![T(p)] = [saTx[T(p)] EXCEPT !.state = o, !.stop = FALSE]]
    <3>1. saTx[T(p)] \in TxRow /\ o \in SaStates /\ FALSE \in BOOLEAN
      BY <1>r, <2>0 DEF SaStates, SaResumable, SaRunning, SaTerminal
    <3>2. LET row == [saTx[T(p)] EXCEPT !.state = o, !.stop = FALSE]
          IN row \in TxRow /\ row.head = saTx[T(p)].head /\ row.state = o
      BY <3>1, Zenon DEF TxRow
    <3> QED BY <1>3, <2>0, <2>3, <3>2
  <2> QED BY <1>5, <2>1, <2>2, <2>3 DEF RefusePreclaim
<1>6. ASSUME NEW p \in SaProcs, InterruptPreclaim(p)
      PROVE  \A u \in SaTxs : RowStep(u)
  <2>0. T(p) \in SaTxs /\ saTx[T(p)].state \in SaResumable
    BY <1>6 DEF InterruptPreclaim, UnderWay
  <2>1. CASE saTx' = [saTx EXCEPT ![T(p)] = Acknowledged(saTx[T(p)])]
    BY <1>3, <1>a, <2>0, <2>1
  <2>2. CASE saTx' = [saTx EXCEPT ![T(p)] = Acknowledged(Asked(saTx[T(p)]))]
    <3>1. saTx[T(p)] \in TxRow
      BY <1>r, <2>0
    <3>2. Asked(saTx[T(p)]) \in TxRow /\ Asked(saTx[T(p)]).head = saTx[T(p)].head
      <4>1. Asked(saTx[T(p)]).head = saTx[T(p)].head
        BY <3>1, Zenon DEF Asked, TxRow
      <4> QED BY <3>1, <4>1, RowTyped
    <3> DEFINE ask == Asked(saTx[T(p)])
    <3>3. ask \in TxRow /\ ask.head = saTx[T(p)].head
      BY <3>2
    <3> HIDE DEF ask
    <3>4. Acknowledged(ask) \in TxRow /\ Acknowledged(ask).head = ask.head /\ Acknowledged(ask).state = "stopped"
      <4>1. Acknowledged(ask).head = ask.head /\ Acknowledged(ask).state = "stopped"
        BY <3>3 DEF Acknowledged, TxRow
      <4> QED BY <3>3, <4>1, RowTyped
    <3>5. saTx' = [saTx EXCEPT ![T(p)] = Acknowledged(ask)]
      BY <2>2 DEF ask
    <3> QED BY <1>3, <2>0, <3>3, <3>4, <3>5
  <2> QED BY <1>6, <2>1, <2>2 DEF InterruptPreclaim
<1>7. ASSUME NEW p \in SaProcs, Claim(p)
      PROVE  \A u \in SaTxs : RowStep(u)
  <2>0. T(p) \in SaTxs /\ saTx[T(p)].state \in SaResumable
    BY <1>7 DEF Claim, UnderWay
  <2>1. CASE saTx' = [saTx EXCEPT ![T(p)] = Acknowledged(saTx[T(p)])]
    BY <1>3, <1>a, <2>0, <2>1
  <2>2. CASE saTx' = [saTx EXCEPT ![T(p)] = [saTx[T(p)] EXCEPT !.state = "starting", !.stop = FALSE,
                                                             !.consumed = SessionOnly(T(p))]]
    <3>1. /\ saTx[T(p)] \in TxRow /\ "starting" \in SaStates /\ FALSE \in BOOLEAN
          /\ SessionOnly(T(p)) \in BOOLEAN /\ "starting" # "complete"
      BY <1>r, <2>0 DEF SaStates, SaResumable, SaRunning, SessionOnly
    <3>2. LET row == [saTx[T(p)] EXCEPT !.state = "starting", !.stop = FALSE, !.consumed = SessionOnly(T(p))]
          IN row \in TxRow /\ row.head = saTx[T(p)].head /\ row.state = "starting"
      BY <3>1, Zenon DEF TxRow
    <3> QED BY <1>3, <2>0, <2>2, <3>2
  <2> QED BY <1>7, <2>1, <2>2 DEF Claim
<1>8. ASSUME NEW p \in SaProcs, NEW o \in {"waiting", "failed"},
             \/ Activate(p) \/ RefuseDelivery(p, o) \/ StopDelivery(p) \/ WaitDelivery(p)
             \/ Verifying(p) \/ CloseDelivery(p)
      PROVE  \A u \in SaTxs : RowStep(u)
  <2>1. /\ T(p) \in SaTxs
        /\ \A t \in SaTxs : saTx'[t].head = saTx[t].head
        /\ \A t \in SaTxs \ {T(p)} : saTx'[t] = saTx[t]
        /\ saTx' = saTx \/ (Writable /\ Current(p))
        /\ \A t \in SaTxs : saTx'[t].state # "complete" \/ saTx[t].state = "complete"
    BY <1>8, DeliverEffect
  <2>2. CASE saTx' = saTx
    BY <1>q, <2>2
  <2>3. CASE Current(p)
    <3>1. saTx[T(p)].state \notin SaTerminal
      BY <1>e, <2>3 DEF Current
    <3> QED BY <2>1, <3>1, RowStepOne
  <2> QED BY <2>1, <2>2, <2>3
<1>9. ASSUME NEW p \in SaProcs, AppendRecord(p)
      PROVE  \A u \in SaTxs : RowStep(u)
  <2>1. T(p) \in SaTxs /\ saTx' = [saTx EXCEPT ![T(p)] = [saTx[T(p)] EXCEPT !.head = @ + 1]]
    BY <1>9 DEF AppendRecord, UnderWay
  <2>2. /\ \A u \in SaTxs \ {T(p)} : saTx'[u] = saTx[u]
        /\ saTx'[T(p)].state = saTx[T(p)].state
    BY <1>r, <2>1 DEF TxRow
  <2> QED BY <1>9, <2>2 DEF RowStep
<1>10. ASSUME NEW p \in SaProcs, CompleteCommit(p)
       PROVE  \A u \in SaTxs : RowStep(u)
  <2>1. T(p) \in SaTxs /\ saTx' = [saTx EXCEPT ![T(p)] = [saTx[T(p)] EXCEPT !.state = "complete"]]
        /\ saTx[T(p)].state = "verifying"
    BY <1>10 DEF CompleteCommit, UnderWay, CommitAlone
  <2>2. /\ \A u \in SaTxs \ {T(p)} : saTx'[u] = saTx[u]
        /\ saTx'[T(p)].head = saTx[T(p)].head
    BY <1>r, <2>1 DEF TxRow
  <2> QED BY <1>10, <2>1, <2>2 DEF RowStep, SaTerminal
<1>11. ASSUME NEW p \in SaProcs, SaAct(p)
       PROVE  \A u \in SaTxs : RowStep(u)
  <2>1. CASE SaAgain(p)
    <3>1. saTx' = saTx
      BY <2>1 DEF SaAgain, StartReserve
    <3> QED BY <1>q, <3>1
  <2>2. CASE SaTooLate(p) \/ Insert(p) \/ Claim(p) \/ AppendRecord(p) \/ CompleteCommit(p)
    BY <1>4, <1>5, <1>7, <1>9, <1>10, <2>2 DEF SaTooLate
  <2>3. CASE AcquireLease(p) \/ Preflight(p) \/ ClaimRefused(p) \/ CheckDestination(p) \/ CompleteRelease(p)
    <3>1. saTx' = saTx
      BY <2>3 DEF AcquireLease, Preflight, ClaimRefused, CheckDestination, CompleteRelease
    <3> QED BY <1>q, <3>1
  <2>4. CASE AskAfterInterrupt(p)
    <3>1. T(p) \in SaTxs /\ saTx' = [saTx EXCEPT ![T(p)] = Asked(@)]
      BY <2>4 DEF AskAfterInterrupt, UnderWay
    <3> QED BY <1>2, <3>1
  <2>5. CASE Activate(p) \/ StopDelivery(p) \/ Verifying(p) \/ CloseDelivery(p)
    BY <1>8, <2>5
  <2> QED BY <1>11, <2>1, <2>2, <2>3, <2>4, <2>5 DEF SaAct
<1>12. CASE UNCHANGED saVars
  BY <1>12, <1>q DEF saVars
<1>13. ASSUME NEW t \in SaTxs, RequestStop(t)
       PROVE  \A u \in SaTxs : RowStep(u)
  <2>1. saTx' = [saTx EXCEPT ![t] = Asked(@)]
    BY <1>13 DEF RequestStop
  <2> QED BY <1>2, <2>1
<1>14. ASSUME NEW p \in SaProcs, NEW t \in SaTxs, StartReserve(p, t)
       PROVE  \A u \in SaTxs : RowStep(u)
  BY <1>14, <1>q DEF StartReserve
<1>15. ASSUME NEW p \in SaProcs, Unexpected(p) \/ InterruptStart(p) \/ SaCrash(p)
       PROVE  \A u \in SaTxs : RowStep(u)
  BY <1>15, <1>q DEF Unexpected, InterruptStart, SaCrash
<1>16. ASSUME NEW p \in SaProcs, WaitDelivery(p)
       PROVE  \A u \in SaTxs : RowStep(u)
  BY <1>16, <1>8
<1>17. ASSUME NEW p \in SaProcs, NEW o \in {"waiting", "failed"}, RefuseDelivery(p, o)
       PROVE  \A u \in SaTxs : RowStep(u)
  BY <1>17, <1>8
<1> QED BY <1>1, <1>5, <1>6, <1>11, <1>12, <1>13, <1>14, <1>15, <1>16, <1>17 DEF SaNext

\* A process moves by its own steps only.
LEMMA OwnSteps ==
  ASSUME SaInv, SaNext, NEW p \in SaProcs, saProc'[p].pc # saProc[p].pc
  PROVE  \/ SaAct(p) \/ Unexpected(p) \/ InterruptPreclaim(p) \/ InterruptStart(p) \/ SaCrash(p) \/ WaitDelivery(p)
         \/ \E t \in SaTxs : StartReserve(p, t)
         \/ \E o \in {"waiting", "failed"} : RefusePreclaim(p, o) \/ RefuseDelivery(p, o)
<1>r. saProc \in [SaProcs -> ProcRow]
  BY DEF SaInv, RowsOK
<1>0. SUFFICES ASSUME NEW q \in SaProcs \ {p},
                      \/ SaAct(q) \/ Unexpected(q) \/ InterruptPreclaim(q) \/ InterruptStart(q) \/ SaCrash(q)
                      \/ WaitDelivery(q)
                      \/ \E t \in SaTxs : StartReserve(q, t)
                      \/ \E o \in {"waiting", "failed"} : RefusePreclaim(q, o) \/ RefuseDelivery(q, o)
               PROVE  saProc'[p].pc = saProc[p].pc
  <2>1. ASSUME NEW t \in SaTxs, SaApprove(t) \/ RequestStop(t)
        PROVE  saProc'[p].pc = saProc[p].pc
    <3>1. saProc[p] \in ProcRow
      BY <1>r
    <3>2. CASE SaApprove(t)
      BY <3>2 DEF SaApprove
    <3>3. CASE RequestStop(t)
      <4>1. saProc'[p] = IF T(p) = t THEN [saProc[p] EXCEPT !.fresh = FALSE] ELSE saProc[p]
        BY <3>3 DEF RequestStop
      <4> QED BY <3>1, <4>1 DEF ProcRow
    <3> QED BY <2>1, <3>2, <3>3
  <2> QED BY <1>0, <2>1 DEF SaNext
<1>1. ASSUME NEW t \in SaTxs, StartReserve(q, t)
      PROVE  saProc'[p].pc = saProc[p].pc
  <2>1. CASE Reservable(t)
    BY <1>1, <1>r, <2>1 DEF StartReserve
  <2>2. CASE ~Reservable(t)
    BY <1>1, <1>r, <2>2 DEF StartReserve, SaEnd
  <2> QED BY <2>1, <2>2
<1>2. CASE \/ Insert(q) \/ AcquireLease(q) \/ Preflight(q) \/ ClaimRefused(q) \/ CheckDestination(q) \/ Activate(q)
           \/ StopDelivery(q) \/ Verifying(q) \/ CompleteRelease(q) \/ CompleteCommit(q) \/ CloseDelivery(q)
           \/ Unexpected(q) \/ InterruptStart(q) \/ SaCrash(q) \/ WaitDelivery(q)
  BY <1>2, <1>r DEF Insert, AcquireLease, Preflight, ClaimRefused, CheckDestination, Activate, StopDelivery,
     Verifying, CompleteRelease, CompleteCommit, CloseDelivery, Unexpected, InterruptStart, SaCrash, WaitDelivery,
     SaGo, SaEnd
<1>3. CASE Claim(q) \/ AppendRecord(q)
  BY <1>3, <1>r DEF Claim, AppendRecord, SaEnd
<1>4. ASSUME NEW o \in {"waiting", "failed"}, RefusePreclaim(q, o) \/ RefuseDelivery(q, o)
      PROVE  saProc'[p].pc = saProc[p].pc
  BY <1>4, <1>r DEF RefusePreclaim, RefuseDelivery, SaEnd
<1>5. CASE AskAfterInterrupt(q) \/ InterruptPreclaim(q)
  <2>0. saProc[p] \in ProcRow
    BY <1>r
  <2>1. CASE AskAfterInterrupt(q)
    <3>1. saProc'[p] = IF T(p) = T(q) THEN [saProc[p] EXCEPT !.fresh = FALSE] ELSE saProc[p]
      BY <2>1 DEF AskAfterInterrupt
    <3> QED BY <2>0, <3>1 DEF ProcRow
  <2>2. CASE InterruptPreclaim(q)
    <3>1. PICK f : saProc'[p] = [saProc[p] EXCEPT !.fresh = f]
      <4>1. saProc'[p] = [saProc[p] EXCEPT !.fresh = @ /\ (T(p) # T(q) \/ (saTx[T(q)].stop /\ ~Resumes(q)))]
        BY <2>2 DEF InterruptPreclaim
      <4> QED BY <4>1, Zenon
    <3> QED BY <2>0, <3>1 DEF ProcRow
  <2> QED BY <1>5, <2>1, <2>2
<1>6. CASE SaAgain(q) \/ SaTooLate(q)
  <2>1. CASE SaAgain(q)
    <3>1. T(q) \in SaTxs
      BY <2>1 DEF SaAgain, SaInv, UnderWay
    <3> QED BY <1>1, <2>1, <3>1 DEF SaAgain
  <2> QED BY <1>4, <1>6, <2>1 DEF SaTooLate
<1> QED BY <1>0, <1>1, <1>2, <1>3, <1>4, <1>5, <1>6 DEF SaAct

\* A delivery that ends by itself after a Stop was asked leaves it acknowledged, or failed.
LEMMA EndsAnswered ==
  ASSUME SaInv, SaNext, NEW p \in SaProcs, saProc[p].pc \in {"check", "activate", "run"},
         saHist[T(p)].stop = "asked", saProc'[p].pc = "idle", saLeft' = saLeft
  PROVE  saHist'[T(p)].stop = "acked" \/ saTx'[T(p)].state \in SaTerminal
<1> USE DEF SaInv
<1>1. T(p) \in SaTxs /\ saTx[T(p)].stop
  BY DEF UnderWay, StopOnRow
<1>2. saProc \in [SaProcs -> ProcRow] /\ saProc[p] \in ProcRow
  BY DEF RowsOK
<1>3. ASSUME NEW o \in {"waiting", "failed"},
             \/ Activate(p) \/ RefuseDelivery(p, o) \/ StopDelivery(p) \/ WaitDelivery(p) \/ Verifying(p)
      PROVE  saHist'[T(p)].stop = "acked" \/ saTx'[T(p)].state \in SaTerminal
  <2>1. saProc[p].pc # "closing" /\ saTx[T(p)].stop /\ saHist[T(p)].stop = "asked"
              => saHist'[T(p)].stop = "acked" \/ saTx'[T(p)].state = "failed"
    BY <1>3, DeliverEffect
  <2> QED BY <1>1, <2>1 DEF SaTerminal
<1>4. ~SaCrash(p)
  BY LeftTyped DEF SaCrash
<1>5. ~(CheckDestination(p) \/ CompleteRelease(p) \/ Unexpected(p) \/ InterruptStart(p))
  BY <1>2 DEF CheckDestination, CompleteRelease, Unexpected, InterruptStart, SaGo, ProcRow
<1>6. ~AppendRecord(p)
  BY <1>2 DEF AppendRecord, ProcRow
<1>7. ~(\E t \in SaTxs : StartReserve(p, t)) /\ ~SaAgain(p) /\ ~SaTooLate(p) /\ ~InterruptPreclaim(p)
  BY DEF StartReserve, SaAgain, SaTooLate, InterruptPreclaim
<1>8. ~(Insert(p) \/ AcquireLease(p) \/ Preflight(p) \/ ClaimRefused(p) \/ Claim(p) \/ CompleteCommit(p)
        \/ CloseDelivery(p) \/ AskAfterInterrupt(p))
  BY DEF Insert, AcquireLease, Preflight, ClaimRefused, Claim, CompleteCommit, CloseDelivery, AskAfterInterrupt
<1>9. ~(\E o \in {"waiting", "failed"} : RefusePreclaim(p, o))
  BY DEF RefusePreclaim
<1>10. SaAct(p) => Activate(p) \/ StopDelivery(p) \/ Verifying(p)
  BY <1>5, <1>6, <1>7, <1>8 DEF SaAct
<1> QED BY <1>3, <1>4, <1>5, <1>7, <1>9, <1>10, OwnSteps

\* After a Stop nothing is journalled and nothing completes until a Start that was issued after
\* the acknowledgement of that very Stop has taken over (Reservation.resumes); what is settled
\* stays settled; a delivery that ends answers its Stop (Session._step, DeliveryAuthority.refuse).
THEOREM StopsAreKept == SaSpec => StopsHold
<1> DEFINE Wins == \A t \in SaTxs : \/ saTx'[t].head # saTx[t].head
                                    \/ saTx[t].state # "complete" /\ saTx'[t].state = "complete"
                                    => saHist[t].stop = "none"
           Final == \A t \in SaTxs : saTx[t].state \in SaTerminal => saTx'[t].state = saTx[t].state
           Answered == \A p \in SaProcs :
                         /\ saProc[p].pc \in {"check", "activate", "run"} /\ saHist[T(p)].stop = "asked"
                         /\ saProc'[p].pc = "idle" /\ saLeft' = saLeft
                         => saHist'[T(p)].stop = "acked" \/ saTx'[T(p)].state \in SaTerminal
<1>1. SaInv /\ [SaNext]_saVars => [Wins]_saVars
  <2> SUFFICES ASSUME SaInv, [SaNext]_saVars
               PROVE  Wins
    OBVIOUS
  <2>1. ASSUME NEW t \in SaTxs, \/ saTx'[t].head # saTx[t].head
                                \/ saTx[t].state # "complete" /\ saTx'[t].state = "complete"
        PROVE  saHist[t].stop = "none"
    <3>1. \E p \in SaProcs : (AppendRecord(p) \/ CompleteCommit(p)) /\ T(p) = t
      BY <2>1, RowSteps DEF RowStep
    <3>2. ~saTx[t].stop
      BY <3>1 DEF AppendRecord, CompleteCommit, SaInv, CommitAlone
    <3> QED BY <3>2 DEF SaInv, StopOnRow
  <2> QED BY <2>1
<1>2. SaInv /\ [SaNext]_saVars => [Final]_saVars
  BY RowSteps DEF RowStep
<1>3. SaInv /\ [SaNext]_saVars => [Answered]_saVars
  <2> SUFFICES ASSUME SaInv, SaNext
               PROVE  Answered
    OBVIOUS
  <2> QED BY EndsAnswered
<1>4. SaSpec => [][Wins]_saVars /\ [][Final]_saVars /\ [][Answered]_saVars
  BY <1>1, <1>2, <1>3, AuthorityInvariant, PTL DEF SaSpec
<1> QED BY <1>4 DEF StopsHold, StopWins, TerminalIsFinal, StopIsAnswered

-----------------------------------------------------------------------------
(* SliceTransfer                                                           *)


StStates == {"approved", "transferring", "verifying", "waiting", "failed", "complete"}
StPcs == {"down", "audit", "op", "certify", "source", "write", "create", "chunk", "prepare",
          "publish", "complete", "discard", "step", "verify", "receipt"}
Origins == StSources \cup {OwnBytes}
Shas == {<<>>} \cup [StFiles -> Origins]
OpRow == [state : {"none", "intent", "prepared", "complete"}, src : Origins, sha : Shas]
TempRow == [bytes : {"none", "part", "good"}, from : Origins]
FinalRow == [bytes : {"none", "bare", "good", "bad", "foreign"}, from : Origins]
RunRow == [pc : StPcs, cur : StPaths, tried : SUBSET StSources, checked : SUBSET StFiles]
LeftRow == [crashes : Nat, reads : Nat, touches : Nat]

\* The files are numbered from one on, so that no file is the root, the control record or the receipt.
StShaped ==
  /\ stPlan \in StPlans
  /\ stState \in StStates
  /\ stOp \in [StPaths -> OpRow]
  /\ stTemp \in [StPaths -> TempRow]
  /\ stFinal \in [StPaths -> FinalRow]
  /\ stRun \in RunRow
  /\ stTouched \subseteq StPaths
  /\ stLeft \in LeftRow /\ stLeft.touches <= StBounds.touches

\* The sources are tried in their order.
TriedInOrder == \E k \in 0..stPlan.sources : stRun.tried = 1..k

Undisturbed == stLeft.touches = StBounds.touches

Proven == {"prepared", "complete"}
Writing == {"write", "create", "chunk", "prepare"}
Created == {"create", "chunk", "prepare"}
Publishing == {"publish", "complete", "discard"}

\* What holds of a path, whatever the session does.
PathOK(x) ==
  /\ stTemp[x].bytes # "none" => stOp[x].state # "none"
  /\ x \in StFiles /\ stOp[x].state \in Proven =>
       /\ stOp[x].src # OwnBytes
       /\ stTemp[x].bytes = "good" => stTemp[x].from = stOp[x].src
       /\ stFinal[x].bytes = "good" => stFinal[x].from = stOp[x].src
  /\ x = Root => stOp[x].state # "prepared" /\ stFinal[x].bytes \in {"none", "bare", "good"}

\* What the journal says of the disk, until somebody else comes.
PathTold(x) ==
  /\ stFinal[x].bytes \in {"none", "good"} \/ x = Root
  /\ stFinal[x].bytes = "good" => stOp[x].state # "none"
  /\ stOp[x].state = "complete" => stFinal[x].bytes = "good"
  /\ stOp[x].state = "intent" /\ x # Root => stFinal[x].bytes = "none"
  /\ stOp[x].state = "prepared" /\ stFinal[x].bytes = "none" => stTemp[x].bytes = "good"

PathsOK == \A x \in StPaths : PathOK(x) /\ (Undisturbed => PathTold(x))

\* Where the session is, and what it has done there.
PlaceOK ==
  /\ stRun.pc # "down" => stState \in {"transferring", "verifying"}
  /\ StAt("certify") => X = Root /\ stFinal[X].bytes = "bare" /\ stOp[X].state # "none"
  /\ StAt("source") => X \in StFiles
  /\ stRun.pc \in Writing \cup {"publish"} => X # Root
  /\ stRun.pc \in Writing \cup {"source"} => stOp[X].state # "none"
  /\ stRun.pc \in Writing /\ X \in StFiles => stRun.tried # {}
  /\ stRun.pc \in Created => stOp[X].state = "intent" /\ stFinal[X].bytes \in {"none", "foreign"}
  /\ stRun.pc \in {"chunk", "prepare"} => stTemp[X].from = Reading
  /\ StAt("prepare") => stTemp[X].bytes = "good"
  /\ stRun.pc \in Publishing /\ X # Root => stOp[X].state \in Proven
  /\ stRun.pc \in {"discard", "receipt"} => stOp[X].state = "complete"
  /\ StAt("receipt") => X = Receipt

\* The same, until somebody else comes.
PlaceTold ==
  /\ X \in StFiles /\ stRun.pc \in Writing \cup {"op", "source"} => stOp[X].state # "complete"
  /\ stRun.pc \in Writing \cup {"source"} => stFinal[X].bytes = "none"
  /\ StAt("publish") => stFinal[X].bytes = "good" \/ (stFinal[X].bytes = "none" /\ stTemp[X].bytes = "good")
  /\ StAt("complete") => stFinal[X].bytes = "good"

\* A file is complete once more at the end, and the receipt names the sources as they are.
CompletionOK ==
  /\ stRun.pc \in {"step", "verify"} \/ (stRun.pc # "down" /\ X \in StFiles \cup {Receipt}) =>
       stOp[ControlPath].state = "complete"
  /\ StAt("verify") => \A f \in StFiles : stOp[f].state = "complete"
  /\ stRun.pc # "down" /\ X = Receipt =>
       \A f \in StFiles : /\ stOp[f].state = "complete"
                          /\ f \notin stTouched => stFinal[f].bytes = "good"
  /\ stRun.pc \in Writing \cup Publishing \cup {"receipt"} /\ X = Receipt => stOp[X].sha = ReceiptBytes

\* A receipt once intended stays the receipt of these files.
ReceiptTold ==
  stOp[Receipt].state # "none" =>
    /\ stOp[Receipt].sha = ReceiptBytes
    /\ \A f \in StFiles : stOp[f].state = "complete"

StInv ==
  /\ StShaped
  /\ TriedInOrder
  /\ PathsOK
  /\ PlaceOK
  /\ CompletionOK
  /\ Undisturbed => PlaceTold /\ ReceiptTold
  /\ ReceiptIsTrue
  /\ CrashesDoNotFail

-----------------------------------------------------------------------------
(* Numbers and rows                                                        *)

\* The paths of the program are no files.
LEMMA PathNames ==
  ASSUME StShaped
  PROVE  /\ stPlan.files \in Nat /\ stPlan.sources \in Nat /\ stPlan.fat \in BOOLEAN
         /\ StFiles \subseteq Nat \ {0} /\ StFiles \subseteq StPaths
         /\ Root \in StPaths /\ ControlPath \in StPaths /\ Receipt \in StPaths
         /\ Root \notin StFiles /\ ControlPath \notin StFiles /\ Receipt \notin StFiles
         /\ Root # ControlPath /\ Root # Receipt /\ ControlPath # Receipt
         /\ OwnBytes \notin StSources
         /\ StBounds.touches \in Nat
<1>1. stPlan.files \in Nat /\ stPlan.sources \in Nat /\ stPlan.fat \in BOOLEAN
  BY SliceTransferBounds DEF StShaped
<1> QED BY <1>1, SliceTransferBounds DEF StFiles, StSources, StPaths, Root, ControlPath, Receipt, OwnBytes

\* The smallest file of a set (Session.step takes the first that is not done).
LEMMA MinIsLeast ==
  ASSUME StShaped, NEW S \in SUBSET StFiles, S # {}
  PROVE  Min(S) \in S /\ \A f \in S : Min(S) <= f
<1>1. S \subseteq Nat
  BY PathNames
<1>2. \E m \in S : \A f \in S : ~ (<<f, m>> \in OpToRel(<, Nat))
  BY <1>1, NatLessThanWellFounded, WFMin
<1>3. PICK m \in S : \A f \in S : ~ (<<f, m>> \in OpToRel(<, Nat))
  BY <1>2
<1>4. \A f \in S : m <= f
  <2>1. SUFFICES ASSUME NEW f \in S PROVE m <= f
    OBVIOUS
  <2>2. f \in Nat /\ m \in Nat
    BY <1>1
  <2>3. f < m => <<f, m>> \in OpToRel(<, Nat)
    BY <2>2 DEF OpToRel
  <2>4. ~ (f < m)
    BY <1>3, <2>3, Zenon
  <2> QED BY <2>2, <2>4
<1> QED BY <1>4 DEF Min

\* The next source is one of the plan's; the last one tried is the greatest.
LEMMA TriedSources ==
  ASSUME StShaped, TriedInOrder
  PROVE  /\ NextSource \in Nat \ {0}
         /\ NextSource <= stPlan.sources => /\ NextSource \in StSources
                                            /\ \E k \in 0..stPlan.sources : stRun.tried \cup {NextSource} = 1..k
         /\ stRun.tried # {} => Max(stRun.tried) \in StSources
<1>1. PICK k \in 0..stPlan.sources : stRun.tried = 1..k
  BY DEF TriedInOrder
<1>2. stPlan.sources \in Nat /\ k \in Nat /\ k <= stPlan.sources
  BY PathNames
<1>3. Cardinality(1..k) = k
  BY <1>2, FS_Interval
<1>4. NextSource = k + 1
  BY <1>1, <1>3 DEF NextSource
<1>5. (1..k) \cup {k + 1} = 1..(k + 1)
  BY <1>2
<1>6. ASSUME stRun.tried # {}
      PROVE  Max(stRun.tried) \in StSources
  <2>1. k \in 1..k /\ \A y \in 1..k : k >= y
    BY <1>1, <1>2, <1>6
  <2>2. Max(1..k) \in 1..k
    BY <2>1 DEF Max
  <2> QED BY <1>1, <1>2, <2>2 DEF StSources
<1>7. NextSource <= stPlan.sources => /\ NextSource \in StSources /\ k + 1 \in 0..stPlan.sources
                                      /\ stRun.tried \cup {NextSource} = 1..(k + 1)
  BY <1>1, <1>2, <1>4, <1>5 DEF StSources
<1> QED BY <1>2, <1>4, <1>6, <1>7

\* While the plan is the same, so are the paths and the rows.
LEMMA SamePlan ==
  ASSUME stPlan' = stPlan
  PROVE  /\ StFiles' = StFiles /\ StSources' = StSources /\ StPaths' = StPaths
         /\ OpRow' = OpRow /\ TempRow' = TempRow /\ FinalRow' = FinalRow /\ RunRow' = RunRow /\ Origins' = Origins
BY DEF StFiles, StSources, StPaths, OpRow, TempRow, FinalRow, RunRow, Origins, Shas

\* The session moves on at the same path ...
LEMMA StGoEffect ==
  ASSUME StShaped, NEW c \in StPcs, StGo(c)
  PROVE  /\ stRun' \in RunRow
         /\ stRun'.pc = c /\ stRun'.cur = stRun.cur /\ stRun'.tried = stRun.tried /\ stRun'.checked = stRun.checked
BY DEF StShaped, StGo, RunRow

\* ... turns to another one ...
LEMMA OnEffect ==
  ASSUME StShaped, NEW c \in StPcs, NEW x \in StPaths, StOn(c, x)
  PROVE  /\ stRun' \in RunRow
         /\ stRun'.pc = c /\ stRun'.cur = x /\ stRun'.tried = {} /\ stRun'.checked = stRun.checked
BY DEF StShaped, StOn, RunRow

\* ... or is down.
LEMMA DownEffect ==
  ASSUME StShaped, stRun' = StDown
  PROVE  /\ stRun' \in RunRow
         /\ stRun'.pc = "down" /\ stRun'.cur = Root /\ stRun'.tried = {} /\ stRun'.checked = {}
BY PathNames DEF StDown, RunRow, StPcs

\* The bytes of the program's own records are the plan's origins as they stand.
LEMMA ReceiptTyped ==
  ASSUME StShaped
  PROVE  ReceiptBytes \in Shas
<1>1. \A f \in StFiles : stOp[f] \in OpRow
  BY PathNames DEF StShaped
<1>2. \A f \in StFiles : stOp[f].src \in Origins
  BY <1>1 DEF OpRow
<1> QED BY <1>2 DEF ReceiptBytes, Shas

\* The source of a write is one of the plan's, or the program itself.
LEMMA ReadingTyped ==
  ASSUME StInv, stRun.pc \in Writing
  PROVE  /\ Reading \in Origins
         /\ X \in StFiles => Reading \in StSources /\ Reading # OwnBytes
BY TriedSources, PathNames DEF StInv, PlaceOK, Reading, Origins

-----------------------------------------------------------------------------
(* The shape of a step                                                     *)

\* The paths are kept by a step that leaves all but one as they are, when nobody else acts.
LEMMA PathsKept ==
  ASSUME PathsOK, stPlan' = stPlan, stLeft'.touches = stLeft.touches, NEW x \in StPaths,
         \A y \in StPaths \ {x} : stOp'[y] = stOp[y] /\ stTemp'[y] = stTemp[y] /\ stFinal'[y] = stFinal[y],
         PathOK(x)', Undisturbed => PathTold(x)'
  PROVE  PathsOK'
<1>1. StPaths' = StPaths /\ StFiles' = StFiles /\ Undisturbed' = Undisturbed
  BY SamePlan DEF Undisturbed
<1>2. ASSUME NEW y \in StPaths \ {x}
      PROVE  PathOK(y)' /\ (Undisturbed => PathTold(y)')
  BY <1>1, <1>2 DEF PathsOK, PathOK, PathTold
<1> QED BY <1>1, <1>2 DEF PathsOK

\* The same when all of them are left as they are.
LEMMA PathsSame ==
  ASSUME PathsOK, stPlan' = stPlan, stLeft'.touches = stLeft.touches,
         stOp' = stOp, stTemp' = stTemp, stFinal' = stFinal
  PROVE  PathsOK'
<1>1. StPaths' = StPaths /\ StFiles' = StFiles /\ Undisturbed' = Undisturbed
  BY SamePlan DEF Undisturbed
<1> QED BY <1>1 DEF PathsOK, PathOK, PathTold

\* A step that writes nothing at the destination keeps what the records say.
LEMMA StQuietKeeps ==
  ASSUME StInv, stPlan' = stPlan, stOp' = stOp, stTemp' = stTemp, stFinal' = stFinal, stTouched' = stTouched,
         stState' \in StStates, stState' = stState \/ stState' \notin {"complete", "failed"},
         stRun' \in RunRow, stLeft' \in LeftRow, stLeft'.touches = stLeft.touches,
         TriedInOrder', PlaceOK', CompletionOK', Undisturbed => PlaceTold'
  PROVE  StInv'
<1> USE DEF StInv
<1>1. /\ StFiles' = StFiles /\ StPaths' = StPaths /\ OpRow' = OpRow /\ TempRow' = TempRow /\ FinalRow' = FinalRow
      /\ RunRow' = RunRow /\ ReceiptBytes' = ReceiptBytes /\ Undisturbed' = Undisturbed
  BY SamePlan DEF ReceiptBytes, Undisturbed
<1>2. StShaped'
  BY <1>1 DEF StShaped
<1>3. PathsOK'
  BY PathsSame
<1>4. ReceiptTold => ReceiptTold'
  BY <1>1 DEF ReceiptTold
<1>5. ReceiptIsTrue'
  BY <1>1 DEF ReceiptIsTrue
<1>6. CrashesDoNotFail'
  BY DEF CrashesDoNotFail
<1> QED BY <1>1, <1>2, <1>3, <1>4, <1>5, <1>6

\* Nothing is claimed of the place of a session that is down.
LEMMA DownPlace ==
  ASSUME StInv, stPlan' = stPlan, stRun' = StDown
  PROVE  TriedInOrder' /\ PlaceOK' /\ CompletionOK' /\ PlaceTold' /\ stRun' \in RunRow
<1>1. stRun' \in RunRow /\ stRun'.pc = "down" /\ stRun'.tried = {} /\ stRun'.cur = Root
  BY DownEffect DEF StInv
<1>2. TriedInOrder'
  <2>1. 0 \in 0..stPlan.sources /\ {} = 1..0
    BY PathNames DEF StInv
  <2> QED BY <1>1, <2>1 DEF TriedInOrder
<1>3. PlaceOK' /\ CompletionOK' /\ PlaceTold'
  BY <1>1 DEF PlaceOK, CompletionOK, PlaceTold, StAt, X, Writing, Created, Publishing
<1> QED BY <1>1, <1>2, <1>3

\* A refusal ends the session.  It says "failed" only when somebody else came, or over a
\* directory that no mark certifies (refusal_state).
LEMMA RefusalKeeps ==
  ASSUME StInv, NEW s \in {"failed", "waiting"}, Refusal(s),
         s = "failed" /\ Undisturbed => stFinal[Root].bytes = "bare"
  PROVE  StInv'
<1> USE DEF StInv
<1>1. /\ stState' = s /\ stPlan' = stPlan /\ stOp' = stOp /\ stTemp' = stTemp /\ stFinal' = stFinal
      /\ stTouched' = stTouched /\ stLeft' = stLeft /\ stRun' = StDown
  BY DEF Refusal
<1>2. TriedInOrder' /\ PlaceOK' /\ CompletionOK' /\ PlaceTold' /\ stRun' \in RunRow
  BY <1>1, DownPlace
<1>3. /\ StFiles' = StFiles /\ StPaths' = StPaths /\ OpRow' = OpRow /\ TempRow' = TempRow /\ FinalRow' = FinalRow
      /\ RunRow' = RunRow /\ ReceiptBytes' = ReceiptBytes /\ Undisturbed' = Undisturbed
  BY <1>1, SamePlan DEF ReceiptBytes, Undisturbed
<1>4. StShaped'
  BY <1>1, <1>2, <1>3 DEF StShaped, StStates
<1>5. PathsOK'
  BY <1>1, PathsSame
<1>6. ReceiptTold => ReceiptTold'
  BY <1>1, <1>3 DEF ReceiptTold
<1>7. ReceiptIsTrue'
  BY <1>1 DEF ReceiptIsTrue
<1>8. CrashesDoNotFail'
  <2>1. stLeft.touches \in Nat /\ StBounds.touches \in Nat /\ stLeft.touches <= StBounds.touches
    BY PathNames DEF StShaped, LeftRow
  <2> QED BY <1>1, <2>1 DEF CrashesDoNotFail, Undisturbed
<1> QED BY <1>2, <1>3, <1>4, <1>5, <1>6, <1>7, <1>8

\* While nobody else came, the control record holds, and the layout is the program's unless
\* its directory is not certified.
LEMMA ChecksPass ==
  ASSUME StInv, Undisturbed
  PROVE  /\ ControlHolds
         /\ stFinal[Root].bytes = "bare" \/ LayoutClean
<1> USE DEF StInv
<1>1. \A x \in StPaths : PathOK(x) /\ PathTold(x)
  BY DEF PathsOK
<1>2. ControlHolds
  BY <1>1, PathNames DEF ControlHolds, PathTold
<1>3. ASSUME stFinal[Root].bytes # "bare", NEW x \in StPaths
      PROVE  ~Alien(x) /\ (OwnedFinal(x) => stOp[x].state # "none")
  <2>1. CASE x = Root
    BY <1>1, <1>3, <2>1 DEF PathOK, PathTold, Alien, OwnedFinal
  <2>2. CASE x # Root
    BY <1>1, <1>3, <2>2 DEF PathTold, Alien, OwnedFinal
  <2> QED BY <2>1, <2>2
<1> QED BY <1>2, <1>3 DEF LayoutClean

-----------------------------------------------------------------------------
(* Steps of the session that write nothing at the destination              *)

\* start, a crash and the end of a delivery.
LEMMA StartKeeps ==
  ASSUME StInv, StartSession
  PROVE  StInv'
<1> USE DEF StInv
<1>1. /\ stState' = "transferring" /\ StOn("audit", Root) /\ stPlan' = stPlan /\ stOp' = stOp /\ stTemp' = stTemp
      /\ stFinal' = stFinal /\ stTouched' = stTouched /\ stLeft' = stLeft
  BY DEF StartSession
<1>2. stRun' \in RunRow /\ stRun'.pc = "audit" /\ stRun'.cur = Root /\ stRun'.tried = {}
  BY <1>1, OnEffect, PathNames DEF StPcs
<1>3. TriedInOrder'
  <2>1. 0 \in 0..stPlan.sources /\ {} = 1..0
    BY PathNames
  <2> QED BY <1>1, <1>2, <2>1 DEF TriedInOrder
<1>4. StFiles' = StFiles
  BY <1>1, SamePlan
<1>5. PlaceOK' /\ CompletionOK' /\ PlaceTold'
  BY <1>1, <1>2, <1>4, PathNames DEF PlaceOK, CompletionOK, PlaceTold, StAt, X, Writing, Created, Publishing
<1>6. stLeft \in LeftRow /\ stState' \in StStates
  BY <1>1 DEF StShaped, StStates
<1> QED BY <1>1, <1>2, <1>3, <1>5, <1>6, StQuietKeeps

\* A crash loses the open handles and nothing of the journal or of the disk.
LEMMA CrashKeeps ==
  ASSUME StInv, StCrash
  PROVE  StInv'
<1> USE DEF StInv
<1>1. /\ stRun' = StDown /\ stLeft.crashes > 0 /\ stLeft' = [stLeft EXCEPT !.crashes = @ - 1]
      /\ stPlan' = stPlan /\ stState' = stState /\ stOp' = stOp /\ stTemp' = stTemp
      /\ stFinal' = stFinal /\ stTouched' = stTouched
  BY DEF StCrash
<1>2. stLeft' \in LeftRow /\ stLeft'.touches = stLeft.touches
  BY <1>1 DEF StShaped, LeftRow
<1>3. stState \in StStates
  BY DEF StShaped
<1> QED BY <1>1, <1>2, <1>3, DownPlace, StQuietKeeps

\* AuditStart: a layout that is not the program's ends the session.
LEMMA AuditKeeps ==
  ASSUME StInv, AuditStart
  PROVE  StInv'
<1> USE DEF StInv
<1>1. CASE ~LayoutClean /\ Refusal("failed")
  BY <1>1, ChecksPass, RefusalKeeps
<1>2. CASE StOn("op", Root) /\ OnlyRun
  <2>1. /\ stPlan' = stPlan /\ stState' = stState /\ stOp' = stOp /\ stTemp' = stTemp
        /\ stFinal' = stFinal /\ stTouched' = stTouched /\ stLeft' = stLeft
    BY <1>2 DEF OnlyRun
  <2>2. stRun' \in RunRow /\ stRun'.pc = "op" /\ stRun'.cur = Root /\ stRun'.tried = {}
    BY <1>2, OnEffect, PathNames DEF StPcs
  <2>3. TriedInOrder'
    <3>1. 0 \in 0..stPlan.sources /\ {} = 1..0
      BY PathNames
    <3> QED BY <2>1, <2>2, <3>1 DEF TriedInOrder
  <2>4. stState \in {"transferring", "verifying"}
    BY DEF AuditStart, StAt, PlaceOK
  <2>5. StFiles' = StFiles
    BY <2>1, SamePlan
  <2>6. PlaceOK' /\ CompletionOK' /\ PlaceTold'
    BY <2>1, <2>2, <2>4, <2>5, PathNames DEF PlaceOK, CompletionOK, PlaceTold, StAt, X, Writing, Created, Publishing
  <2>7. stLeft \in LeftRow /\ stState \in StStates
    BY DEF StShaped
  <2> QED BY <2>1, <2>2, <2>3, <2>6, <2>7, StQuietKeeps
<1> QED BY <1>1, <1>2 DEF AuditStart

\* Turning to another path forgets the sources tried for the last one.
LEMMA FreshTried ==
  ASSUME StInv, stPlan' = stPlan, stRun'.tried = {} \/ stRun'.tried = stRun.tried
  PROVE  TriedInOrder'
<1>1. 0 \in 0..stPlan.sources /\ {} = 1..0
  BY PathNames DEF StInv
<1>2. TriedInOrder
  BY DEF StInv
<1>3. CASE stRun'.tried = {}
  BY <1>1, <1>3 DEF TriedInOrder
<1>4. CASE stRun'.tried = stRun.tried
  BY <1>2, <1>4 DEF TriedInOrder
<1> QED BY <1>3, <1>4

\* A step of the session alone keeps the invariant when its new place is right.
LEMMA RunKeeps ==
  ASSUME StInv, OnlyRun, stRun' \in RunRow, TriedInOrder', PlaceOK', CompletionOK', Undisturbed => PlaceTold'
  PROVE  StInv'
<1>1. stLeft \in LeftRow /\ stState \in StStates
  BY DEF StInv, StShaped
<1> QED BY <1>1, StQuietKeeps DEF OnlyRun

\* The control record and the receipt are written, or published once prepared.
LEMMA OwnRecordKeeps ==
  ASSUME StInv, OwnRecord
  PROVE  StInv'
<1> USE DEF StInv
<1>0. /\ StAt("op") /\ X \in {ControlPath, Receipt} /\ stOp[X].state # "none" /\ X \in StPaths
      /\ X \notin StFiles /\ X # Root /\ stOp[X] \in OpRow
  BY PathNames DEF OwnRecord, StShaped
<1>1. CASE X = Receipt /\ stOp[X].sha # ReceiptBytes /\ Refusal("failed")
  <2>1. ~Undisturbed
    BY <1>0, <1>1 DEF ReceiptTold
  <2> QED BY <1>1, <2>1, RefusalKeeps
<1>2. CASE /\ X = Receipt => stOp[X].sha = ReceiptBytes
           /\ StGo(IF stOp[X].state = "intent" THEN "write" ELSE "publish") /\ OnlyRun
  <2> DEFINE c == IF stOp[X].state = "intent" THEN "write" ELSE "publish"
  <2>1. /\ stPlan' = stPlan /\ stState' = stState /\ stOp' = stOp /\ stTemp' = stTemp
        /\ stFinal' = stFinal /\ stTouched' = stTouched /\ stLeft' = stLeft
    BY <1>2 DEF OnlyRun
  <2>2. c \in {"write", "publish"} /\ c \in StPcs
    BY DEF StPcs
  <2>3. stRun' \in RunRow /\ stRun'.pc = c /\ stRun'.cur = stRun.cur /\ stRun'.tried = stRun.tried
    BY <1>2, <2>2, StGoEffect
  <2>4. X' = X /\ StFiles' = StFiles /\ ReceiptBytes' = ReceiptBytes
    BY <2>1, <2>3, SamePlan DEF X, ReceiptBytes
  <2>5. TriedInOrder'
    BY <2>1, <2>3, FreshTried
  <2>6. stOp[X].state \in {"intent", "prepared", "complete"} /\ (c = "publish" <=> stOp[X].state # "intent")
    BY <1>0 DEF OpRow
  <2>7. stState \in {"transferring", "verifying"}
    BY <1>0 DEF StAt, PlaceOK
  <2>8. PlaceOK'
    BY <1>0, <2>1, <2>2, <2>3, <2>4, <2>6, <2>7 DEF PlaceOK, StAt, Writing, Created, Publishing, Proven
  <2>9. CompletionOK'
    BY <1>0, <1>2, <2>1, <2>2, <2>3, <2>4 DEF CompletionOK, StAt, Writing, Publishing
  <2>10. Undisturbed => PlaceTold'
    <3>1. Undisturbed => PathTold(X)
      BY <1>0 DEF PathsOK
    <3> QED BY <1>0, <2>1, <2>2, <2>3, <2>4, <2>6, <3>1 DEF PlaceTold, PathTold, StAt, Writing
  <2> QED BY <1>2, <2>3, <2>5, <2>8, <2>9, <2>10, RunKeeps
<1> QED BY <1>1, <1>2 DEF OwnRecord

\* A file goes on from the journal and from what is there (_file).
LEMMA ResumeKeeps ==
  ASSUME StInv, ResumeOrRead
  PROVE  StInv'
<1> USE DEF StInv
<1>0. /\ StAt("op") /\ X \in StFiles /\ stOp[X].state # "none" /\ X \in StPaths /\ X \notin {Root, ControlPath, Receipt}
      /\ stOp[X] \in OpRow /\ stTemp[X] \in TempRow /\ stFinal[X] \in FinalRow
  BY PathNames DEF ResumeOrRead, StShaped
<1>p. Undisturbed => PathTold(X)
  BY <1>0 DEF PathsOK
<1>t. /\ stOp[X].state \in {"intent", "prepared", "complete"} /\ stTemp[X].bytes \in {"none", "part", "good"}
      /\ stFinal[X].bytes \in {"none", "bare", "good", "bad", "foreign"}
  BY <1>0 DEF OpRow, TempRow, FinalRow
<1>1. CASE (Alien(X) \/ (stOp[X].state = "intent" /\ stFinal[X].bytes # "none")) /\ Refusal("failed")
  <2>1. ~Undisturbed
    BY <1>0, <1>1, <1>p DEF PathTold, Alien
  <2> QED BY <1>1, <2>1, RefusalKeeps
<1>2. CASE /\ ~Alien(X) /\ ~(stOp[X].state = "intent" /\ stFinal[X].bytes # "none") /\ OnlyRun
           /\ StGo(IF stOp[X].state # "intent" /\ (OwnedFinal(X) \/ OwnedTemp(X)) THEN "publish" ELSE "source")
  <2> DEFINE c == IF stOp[X].state # "intent" /\ (OwnedFinal(X) \/ OwnedTemp(X)) THEN "publish" ELSE "source"
  <2>1. /\ stPlan' = stPlan /\ stState' = stState /\ stOp' = stOp /\ stTemp' = stTemp
        /\ stFinal' = stFinal /\ stTouched' = stTouched /\ stLeft' = stLeft
    BY <1>2 DEF OnlyRun
  <2>2. c \in {"source", "publish"} /\ c \in StPcs
    BY DEF StPcs
  <2>3. stRun' \in RunRow /\ stRun'.pc = c /\ stRun'.cur = stRun.cur /\ stRun'.tried = stRun.tried
    BY <1>2, <2>2, StGoEffect
  <2>4. X' = X /\ StFiles' = StFiles
    BY <2>1, <2>3, SamePlan DEF X
  <2>5. TriedInOrder'
    BY <2>1, <2>3, FreshTried
  <2>6. /\ c = "publish" => /\ stOp[X].state \in Proven
                            /\ stFinal[X].bytes \in {"good", "bad"} \/ stTemp[X].bytes \in {"part", "good"}
        /\ c = "source" => stOp[X].state = "intent" \/ (stFinal[X].bytes \notin {"good", "bad"} /\ stTemp[X].bytes = "none")
        /\ stFinal[X].bytes \in {"none", "good", "bad"} /\ (stOp[X].state = "intent" => stFinal[X].bytes = "none")
    BY <1>2, <1>t DEF Proven, OwnedFinal, OwnedTemp, Alien
  <2>7. stState \in {"transferring", "verifying"}
    BY <1>0 DEF StAt, PlaceOK
  <2> HIDE DEF c
  <2>8. PlaceOK'
    BY <1>0, <2>1, <2>2, <2>3, <2>4, <2>6, <2>7 DEF PlaceOK, StAt, Writing, Created, Publishing
  <2>9. CompletionOK'
    BY <1>0, <2>1, <2>2, <2>3, <2>4 DEF CompletionOK, StAt, Writing, Publishing
  <2>10. Undisturbed => PlaceTold'
    <3>1. Undisturbed => stOp[X].state # "complete"
      BY <1>0 DEF PlaceTold, StAt
    <3>2. ASSUME Undisturbed
          PROVE  /\ c = "source" => stFinal[X].bytes = "none"
                 /\ c = "publish" => stFinal[X].bytes = "good" \/ (stFinal[X].bytes = "none" /\ stTemp[X].bytes = "good")
      BY <1>0, <1>p, <1>t, <2>6, <3>1, <3>2 DEF PathTold, Proven
    <3> QED BY <1>0, <2>1, <2>2, <2>3, <2>4, <3>1, <3>2 DEF PlaceTold, StAt, Writing
  <2> QED BY <1>2, <2>3, <2>5, <2>8, <2>9, <2>10, RunKeeps
<1> QED BY <1>1, <1>2 DEF ResumeOrRead

\* A source opens, or fails.
LEMMA SourceKeeps ==
  ASSUME StInv, stRun.pc = "source", NEW c \in {"source", "write"}, NextSource <= stPlan.sources,
         stRun' = [stRun EXCEPT !.pc = c, !.tried = @ \cup {NextSource}],
         stPlan' = stPlan, stState' = stState, stOp' = stOp, stTemp' = stTemp, stFinal' = stFinal,
         stTouched' = stTouched, stLeft' \in LeftRow, stLeft'.touches = stLeft.touches
  PROVE  StInv'
<1> USE DEF StInv
<1>1. NextSource \in StSources /\ \E k \in 0..stPlan.sources : stRun.tried \cup {NextSource} = 1..k
  BY TriedSources
<1>2. /\ stRun' \in RunRow /\ stRun'.pc = c /\ stRun'.cur = stRun.cur
      /\ stRun'.tried = stRun.tried \cup {NextSource} /\ stRun'.tried # {}
  BY <1>1 DEF StShaped, RunRow, StPcs
<1>3. TriedInOrder'
  BY <1>1, <1>2 DEF TriedInOrder
<1>4. X \in StFiles /\ X \in StPaths /\ X \notin {Root, ControlPath, Receipt} /\ stState \in {"transferring", "verifying"}
  BY PathNames DEF PlaceOK, StAt
<1>5. X' = X /\ StFiles' = StFiles
  BY <1>2, SamePlan DEF X
<1>6. PlaceOK'
  BY <1>2, <1>4, <1>5 DEF PlaceOK, StAt, Writing, Created, Publishing
<1>7. CompletionOK'
  BY <1>2, <1>4, <1>5 DEF CompletionOK, StAt, Writing, Publishing
<1>8. Undisturbed => PlaceTold'
  BY <1>2, <1>4, <1>5 DEF PlaceTold, StAt, Writing
<1>9. stState' \in StStates
  BY DEF StShaped
<1> QED BY <1>2, <1>3, <1>6, <1>7, <1>8, <1>9, StQuietKeeps

\* A source is opened: only the process changes.
LEMMA OpenSourceKeeps ==
  ASSUME StInv, OpenSource
  PROVE  StInv'
<1>1. stLeft \in LeftRow
  BY DEF StInv, StShaped
<1> QED BY <1>1, SourceKeeps DEF OpenSource, OnlyRun, StAt

\* A source that cannot be opened counts as tried, and the next one is asked.
LEMMA SourceFailsKeeps ==
  ASSUME StInv, SourceFails
  PROVE  StInv'
<1>1. stLeft' \in LeftRow /\ stLeft'.touches = stLeft.touches
  BY DEF SourceFails, StInv, StShaped, LeftRow
<1>2. stRun' = [stRun EXCEPT !.pc = "source", !.tried = @ \cup {NextSource}]
  BY DEF SourceFails, StAt, StInv, StShaped, RunRow
<1> QED BY <1>1, <1>2, SourceKeeps DEF SourceFails, StAt

\* A read that fails turns to the next source.
LEMMA ReadFailsKeeps ==
  ASSUME StInv, ReadFails
  PROVE  StInv'
<1> USE DEF StInv
<1>1. /\ StAt("chunk") /\ X \in StFiles /\ StGo("source") /\ stPlan' = stPlan /\ stState' = stState /\ stOp' = stOp
      /\ stTemp' = stTemp /\ stFinal' = stFinal /\ stTouched' = stTouched
  BY DEF ReadFails
<1>2. stLeft' \in LeftRow /\ stLeft'.touches = stLeft.touches
  BY DEF ReadFails, StShaped, LeftRow
<1>3. stRun' \in RunRow /\ stRun'.pc = "source" /\ stRun'.cur = stRun.cur /\ stRun'.tried = stRun.tried
  BY <1>1, StGoEffect DEF StPcs
<1>4. X \notin {Root, ControlPath, Receipt} /\ stState \in {"transferring", "verifying"}
  BY <1>1, PathNames DEF PlaceOK, StAt
<1>5. X' = X /\ StFiles' = StFiles
  BY <1>1, <1>3, SamePlan DEF X
<1>6. PlaceOK' /\ TriedInOrder'
  BY <1>1, <1>3, <1>4, <1>5, FreshTried DEF PlaceOK, StAt, Writing, Created, Publishing
<1>7. CompletionOK'
  BY <1>1, <1>3, <1>4, <1>5 DEF CompletionOK, StAt, Writing, Publishing
<1>8. Undisturbed => PlaceTold'
  BY <1>1, <1>3, <1>4, <1>5 DEF PlaceTold, StAt, Writing
<1>9. stState' \in StStates
  BY <1>1 DEF StShaped
<1> QED BY <1>1, <1>2, <1>3, <1>6, <1>7, <1>8, <1>9, StQuietKeeps

\* No source is left.
LEMMA NoSourceKeeps ==
  ASSUME StInv, NoSource
  PROVE  StInv'
BY RefusalKeeps DEF NoSource

\* What Session.step finds before the first file that is not done, is done.
LEMMA BeforeIsDone ==
  ASSUME StShaped, NEW f \in StFiles,
         {g \in StFiles : ~StDone(g)} # {} => f < Min({g \in StFiles : ~StDone(g)})
  PROVE  StDone(f)
<1> DEFINE todo == {g \in StFiles : ~StDone(g)}
<1>1. ASSUME ~StDone(f)
      PROVE  FALSE
  <2>1. f \in todo /\ todo # {} /\ todo \in SUBSET StFiles
    BY <1>1
  <2> HIDE DEF todo
  <2>2. Min(todo) <= f /\ Min(todo) \in StFiles
    BY <2>1, MinIsLeast
  <2>3. f \in Nat /\ Min(todo) \in Nat
    BY <2>2, PathNames
  <2>4. f < Min(todo)
    BY <2>1 DEF todo
  <2> QED BY <2>2, <2>3, <2>4
<1> QED BY <1>1

\* Session.step turns to a file, or to the end.
LEMMA StepTurns ==
  ASSUME StInv, stRun.pc = "step", OnlyRun,
         \/ \E f \in StFiles : /\ StOn("publish", f) /\ StDone(f)
         \/ \E f \in StFiles : /\ StOn("op", f) /\ ~StDone(f)
         \/ StGo("verify") /\ \A f \in StFiles : StDone(f)
  PROVE  StInv'
<1> USE DEF StInv
<1>0. /\ stPlan' = stPlan /\ stState' = stState /\ stOp' = stOp /\ stTemp' = stTemp
      /\ stFinal' = stFinal /\ stTouched' = stTouched /\ stLeft' = stLeft
  BY DEF OnlyRun
<1>1. stState \in {"transferring", "verifying"} /\ stOp[ControlPath].state = "complete" /\ StFiles' = StFiles
  BY <1>0, SamePlan DEF PlaceOK, CompletionOK
<1>2. ASSUME NEW f \in StFiles, NEW c \in {"publish", "op"}, StOn(c, f),
             IF c = "publish" THEN StDone(f) ELSE ~StDone(f)
      PROVE  StInv'
  <2>1. f \in StPaths /\ f \notin {Root, ControlPath, Receipt} /\ c \in StPcs
    BY PathNames DEF StPcs
  <2>2. stRun' \in RunRow /\ stRun'.pc = c /\ stRun'.cur = f /\ stRun'.tried = {}
    BY <1>2, <2>1, OnEffect
  <2>3. X' = f
    BY <2>2 DEF X
  <2>4. TriedInOrder'
    BY <1>0, <2>2, FreshTried
  <2>5. PlaceOK'
    BY <1>0, <1>1, <1>2, <2>1, <2>2, <2>3 DEF PlaceOK, StAt, Writing, Created, Publishing, StDone, Proven
  <2>6. CompletionOK'
    BY <1>0, <1>1, <2>1, <2>2, <2>3 DEF CompletionOK, StAt, Writing, Publishing
  <2>7. Undisturbed => PlaceTold'
    <3>1. Undisturbed => (stOp[f].state = "complete" <=> StDone(f)) /\ (StDone(f) => stFinal[f].bytes = "good")
      BY <2>1 DEF PathsOK, PathTold, StDone, OwnedFinal
    <3> QED BY <1>0, <1>1, <1>2, <2>1, <2>2, <2>3, <3>1 DEF PlaceTold, StAt, Writing
  <2> QED BY <2>2, <2>4, <2>5, <2>6, <2>7, RunKeeps
<1>3. ASSUME StGo("verify"), \A f \in StFiles : StDone(f)
      PROVE  StInv'
  <2>1. stRun' \in RunRow /\ stRun'.pc = "verify" /\ stRun'.cur = stRun.cur /\ stRun'.tried = stRun.tried
    BY <1>3, StGoEffect DEF StPcs
  <2>2. X' = X /\ ReceiptBytes' = ReceiptBytes
    BY <1>0, <2>1, SamePlan DEF X, ReceiptBytes
  <2>3. TriedInOrder'
    BY <1>0, <2>1, FreshTried
  <2>4. PlaceOK'
    BY <1>0, <1>1, <2>1, <2>2 DEF PlaceOK, StAt, Writing, Created, Publishing
  <2>5. CompletionOK'
    BY <1>0, <1>1, <1>3, <2>1, <2>2 DEF CompletionOK, StAt, Writing, Publishing, StDone
  <2>6. Undisturbed => PlaceTold'
    BY <1>0, <2>1, <2>2 DEF PlaceTold, StAt, Writing
  <2> QED BY <2>1, <2>3, <2>4, <2>5, <2>6, RunKeeps
<1> QED BY <1>2, <1>3

\* The session's next step: a refusal, a temporary to unlink, the first file that is not done,
\* or the closing audit.
LEMMA StepFileKeeps ==
  ASSUME StInv, Step
  PROVE  StInv'
<1> USE DEF StInv
<1> DEFINE todo == {f \in StFiles : ~StDone(f)}
           before == {f \in StFiles : todo # {} => f < Min(todo)}
           links == {f \in before : OwnedTemp(f)}
           wrong == ~LayoutClean \/ ~ControlHolds \/ (\E f \in before \ stRun.checked : stFinal[f].bytes # "good")
<1>1. before \subseteq StFiles /\ \A f \in before : StDone(f)
  BY BeforeIsDone
<1>2. /\ todo \in SUBSET StFiles /\ links \in SUBSET StFiles
      /\ links \subseteq before /\ todo \subseteq StFiles /\ \A f \in todo : ~StDone(f)
      /\ todo = {} => \A f \in StFiles : StDone(f)
  OBVIOUS
<1>3. /\ StAt("step")
      /\ \/ wrong /\ Refusal("failed")
         \/ links # {} /\ StOn("publish", Min(links)) /\ OnlyRun
         \/ todo # {} /\ StOn("op", Min(todo)) /\ OnlyRun
         \/ todo = {} /\ StGo("verify") /\ OnlyRun
  BY DEF Step
<1> HIDE DEF todo, before, links
<1>4. CASE wrong /\ Refusal("failed")
  <2>1. ASSUME Undisturbed
        PROVE  stFinal[Root].bytes = "bare"
    <3>1. \A f \in before : stFinal[f].bytes = "good"
      BY <1>1, <2>1, PathNames DEF PathsOK, PathTold, StDone
    <3> QED BY <1>4, <2>1, <3>1, ChecksPass
  <2> QED BY <1>4, <2>1, RefusalKeeps
<1>5. CASE links # {} /\ StOn("publish", Min(links)) /\ OnlyRun
  <2>1. Min(links) \in links
    BY <1>2, <1>5, MinIsLeast
  <2> QED BY <1>1, <1>2, <1>3, <1>5, <2>1, StepTurns DEF StAt
<1>6. CASE todo # {} /\ StOn("op", Min(todo)) /\ OnlyRun
  <2>1. Min(todo) \in todo
    BY <1>2, <1>6, MinIsLeast
  <2> QED BY <1>2, <1>3, <1>6, <2>1, StepTurns DEF StAt
<1>7. CASE todo = {} /\ StGo("verify") /\ OnlyRun
  BY <1>2, <1>3, <1>7, StepTurns DEF StAt
<1> QED BY <1>3, <1>4, <1>5, <1>6, <1>7

\* _finish: whoever reads every file whole may issue the receipt.
LEMMA VerifyKeeps ==
  ASSUME StInv, VerifyAll
  PROVE  StInv'
<1> USE DEF StInv
<1> DEFINE whole == /\ stOp[ControlPath].state = "complete" /\ ControlHolds /\ LayoutClean
                    /\ \A f \in StFiles : /\ stOp[f].state = "complete" /\ stFinal[f].bytes = "good"
                                          /\ stOp[f].src # OwnBytes
<1>0. /\ StAt("verify")
      /\ \/ ~whole /\ Refusal("failed")
         \/ /\ whole /\ stState' = "verifying" /\ StOn("op", Receipt) /\ stTouched' = stTouched \ StFiles
            /\ stPlan' = stPlan /\ stOp' = stOp /\ stTemp' = stTemp /\ stFinal' = stFinal /\ stLeft' = stLeft
  BY DEF VerifyAll
<1>1. CASE ~whole /\ Refusal("failed")
  <2>1. ASSUME Undisturbed
        PROVE  stFinal[Root].bytes = "bare"
    <3>1. stOp[ControlPath].state = "complete" /\ \A f \in StFiles : stOp[f].state = "complete"
      BY <1>0 DEF CompletionOK, StAt
    <3>2. \A f \in StFiles : stFinal[f].bytes = "good" /\ stOp[f].src # OwnBytes
      BY <2>1, <3>1, PathNames DEF PathsOK, PathOK, PathTold, Proven
    <3> QED BY <1>1, <2>1, <3>1, <3>2, ChecksPass
  <2> QED BY <1>1, <2>1, RefusalKeeps
<1>2. CASE /\ whole /\ stState' = "verifying" /\ StOn("op", Receipt) /\ stTouched' = stTouched \ StFiles
           /\ stPlan' = stPlan /\ stOp' = stOp /\ stTemp' = stTemp /\ stFinal' = stFinal /\ stLeft' = stLeft
  <2>1. stRun' \in RunRow /\ stRun'.pc = "op" /\ stRun'.cur = Receipt /\ stRun'.tried = {} /\ X' = Receipt
    BY <1>2, OnEffect, PathNames DEF StPcs, X
  <2>2. /\ StFiles' = StFiles /\ StPaths' = StPaths /\ OpRow' = OpRow /\ TempRow' = TempRow /\ FinalRow' = FinalRow
        /\ RunRow' = RunRow /\ ReceiptBytes' = ReceiptBytes /\ Undisturbed' = Undisturbed
    BY <1>2, SamePlan DEF ReceiptBytes, Undisturbed
  <2>3. StShaped'
    BY <1>2, <2>1, <2>2 DEF StShaped, StStates
  <2>4. TriedInOrder'
    BY <1>2, <2>1, FreshTried
  <2>5. PathsOK'
    BY <1>2, PathsSame
  <2>6. PlaceOK'
    BY <1>2, <2>1, PathNames DEF PlaceOK, StAt, Writing, Created, Publishing
  <2>7. CompletionOK'
    BY <1>2, <2>1, <2>2, PathNames DEF CompletionOK, StAt, Writing, Publishing
  <2>8. Undisturbed => PlaceTold' /\ ReceiptTold'
    BY <1>2, <2>1, <2>2, PathNames DEF PlaceTold, ReceiptTold, StAt, Writing
  <2>9. ReceiptIsTrue' /\ CrashesDoNotFail'
    BY <1>2 DEF ReceiptIsTrue, CrashesDoNotFail
  <2> QED BY <2>2, <2>3, <2>4, <2>5, <2>6, <2>7, <2>8, <2>9
<1> HIDE DEF whole
<1> QED BY <1>0, <1>1, <1>2

\* The completion: the receipt is the journalled one, and every file is as it says.
LEMMA FinishKeeps ==
  ASSUME StInv, FinishDelivery
  PROVE  StInv'
<1> USE DEF StInv
<1>1. /\ StAt("receipt") /\ stState' = "complete" /\ stRun' = StDown /\ stPlan' = stPlan /\ stOp' = stOp
      /\ stTemp' = stTemp /\ stFinal' = stFinal /\ stTouched' = stTouched /\ stLeft' = stLeft
  BY DEF FinishDelivery
<1>2. TriedInOrder' /\ PlaceOK' /\ CompletionOK' /\ PlaceTold' /\ stRun' \in RunRow
  BY <1>1, DownPlace
<1>3. /\ StFiles' = StFiles /\ StPaths' = StPaths /\ OpRow' = OpRow /\ TempRow' = TempRow /\ FinalRow' = FinalRow
      /\ RunRow' = RunRow /\ ReceiptBytes' = ReceiptBytes /\ Undisturbed' = Undisturbed
  BY <1>1, SamePlan DEF ReceiptBytes, Undisturbed
<1>4. StShaped'
  BY <1>1, <1>2, <1>3 DEF StShaped, StStates
<1>5. PathsOK'
  BY <1>1, PathsSame
<1>6. ReceiptTold => ReceiptTold'
  BY <1>1, <1>3 DEF ReceiptTold
<1>7. X = Receipt /\ stOp[Receipt].sha = ReceiptBytes
      /\ \A f \in StFiles : stOp[f].state = "complete" /\ (f \notin stTouched => stFinal[f].bytes = "good")
  BY <1>1 DEF PlaceOK, CompletionOK, StAt
<1>8. \A f \in StFiles \ stTouched : stFinal[f] = [bytes |-> "good", from |-> stOp[f].src] /\ stOp[f].src # OwnBytes
  <2>1. SUFFICES ASSUME NEW f \in StFiles \ stTouched
                 PROVE  stFinal[f] = [bytes |-> "good", from |-> stOp[f].src] /\ stOp[f].src # OwnBytes
    OBVIOUS
  <2>2. stFinal[f].bytes = "good" /\ stFinal[f].from = stOp[f].src /\ stOp[f].src # OwnBytes
    BY <1>7, PathNames DEF PathsOK, PathOK, Proven
  <2>3. stFinal[f] \in FinalRow
    BY PathNames DEF StShaped
  <2> QED BY <2>2, <2>3 DEF FinalRow
<1>9. ReceiptIsTrue' /\ CrashesDoNotFail'
  BY <1>1, <1>3, <1>7, <1>8 DEF ReceiptIsTrue, CrashesDoNotFail
<1> QED BY <1>2, <1>3, <1>4, <1>5, <1>6, <1>9

-----------------------------------------------------------------------------
(* Steps that write the journal or the destination                         *)

\* A step of the session that writes at one path keeps the invariant when that path and the
\* new place are right.
LEMMA WriteKeeps ==
  ASSUME StInv, stRun.pc # "down", NEW x \in StPaths,
         stPlan' = stPlan, stState' = stState, stTouched' = stTouched, stLeft' = stLeft,
         stOp' \in [StPaths -> OpRow], stTemp' \in [StPaths -> TempRow], stFinal' \in [StPaths -> FinalRow],
         \A y \in StPaths \ {x} : stOp'[y] = stOp[y] /\ stTemp'[y] = stTemp[y] /\ stFinal'[y] = stFinal[y],
         PathOK(x)', Undisturbed => PathTold(x)',
         stRun' \in RunRow, TriedInOrder', PlaceOK', CompletionOK',
         Undisturbed => PlaceTold' /\ ReceiptTold'
  PROVE  StInv'
<1> USE DEF StInv
<1>1. /\ StPaths' = StPaths /\ OpRow' = OpRow /\ TempRow' = TempRow /\ FinalRow' = FinalRow
      /\ RunRow' = RunRow /\ Undisturbed' = Undisturbed
  BY SamePlan DEF Undisturbed
<1>2. StShaped'
  BY <1>1 DEF StShaped
<1>3. PathsOK'
  BY PathsKept
<1>4. stState \in {"transferring", "verifying"}
  BY DEF PlaceOK
<1>5. ReceiptIsTrue' /\ CrashesDoNotFail'
  BY <1>4 DEF ReceiptIsTrue, CrashesDoNotFail
<1> QED BY <1>1, <1>2, <1>3, <1>5

\* _record moves one head of the journal.
LEMMA RecordEffect ==
  ASSUME StShaped, NEW x \in StPaths, NEW op \in OpRow, Record(x, op)
  PROVE  /\ stOp' \in [StPaths -> OpRow] /\ stOp'[x] = op
         /\ \A y \in StPaths \ {x} : stOp'[y] = stOp[y]
BY DEF StShaped, Record

\* The sources of the files are as they were when no file's record moves.
LEMMA SameReceipt ==
  ASSUME stPlan' = stPlan, \A f \in StFiles : stOp'[f] = stOp[f] \/ stOp'[f].src = stOp[f].src
  PROVE  ReceiptBytes' = ReceiptBytes
<1>1. StFiles' = StFiles
  BY SamePlan
<1>2. \A f \in StFiles : stOp'[f].src = stOp[f].src
  OBVIOUS
<1> QED BY <1>1, <1>2 DEF ReceiptBytes

\* _op: the first record of a path.
LEMMA FirstIntentKeeps ==
  ASSUME StInv, FirstIntent
  PROVE  StInv'
<1> USE DEF StInv
<1>x. PICK x \in StPaths : x = X
  BY DEF StShaped, RunRow, X
<1> DEFINE op == [state |-> "intent", src |-> OwnBytes, sha |-> IF x = Receipt THEN ReceiptBytes ELSE <<>>]
<1>0. /\ StAt("op") /\ stOp[x].state = "none"
      /\ \/ (stFinal[x].bytes # "none" \/ ~ControlHolds) /\ Refusal("failed")
         \/ /\ stFinal[x].bytes = "none" /\ Record(x, op) /\ stPlan' = stPlan /\ stState' = stState
            /\ stTemp' = stTemp /\ stFinal' = stFinal /\ stRun' = stRun /\ stTouched' = stTouched /\ stLeft' = stLeft
  BY <1>x DEF FirstIntent
<1>p. PathOK(x) /\ (Undisturbed => PathTold(x)) /\ stFinal[x] \in FinalRow
  BY DEF PathsOK, StShaped
<1>1. CASE (stFinal[x].bytes # "none" \/ ~ControlHolds) /\ Refusal("failed")
  <2>1. ASSUME Undisturbed
        PROVE  stFinal[Root].bytes = "bare"
    <3>1. stFinal[x].bytes # "none"
      BY <1>1, <2>1, ChecksPass
    <3>2. stFinal[x].bytes # "good"
      BY <1>0, <1>p, <2>1 DEF PathTold
    <3> QED BY <1>p, <2>1, <3>1, <3>2 DEF PathOK, PathTold
  <2> QED BY <1>1, <2>1, RefusalKeeps
<1>2. CASE /\ stFinal[x].bytes = "none" /\ Record(x, op) /\ stPlan' = stPlan /\ stState' = stState
           /\ stTemp' = stTemp /\ stFinal' = stFinal /\ stRun' = stRun /\ stTouched' = stTouched /\ stLeft' = stLeft
  <2>1. op \in OpRow /\ op.state = "intent" /\ (x = Receipt => op.sha = ReceiptBytes)
    BY ReceiptTyped DEF OpRow, Origins, Shas
  <2> HIDE DEF op
  <2>2. /\ stOp' \in [StPaths -> OpRow] /\ stOp'[x] = op /\ \A y \in StPaths \ {x} : stOp'[y] = stOp[y]
    BY <1>2, <2>1, RecordEffect
  <2>3. stFinal'[x].bytes = "none" /\ stTemp'[x] = stTemp[x] /\ X' = x
    BY <1>2, <1>x DEF X
  <2>4. PathOK(x)' /\ (Undisturbed => PathTold(x)')
    BY <2>1, <2>2, <2>3 DEF PathOK, PathTold, Proven
  <2>5. StFiles' = StFiles /\ TriedInOrder'
    BY <1>2, SamePlan, FreshTried
  <2>6. PlaceOK'
    BY <1>0, <1>2, <1>x, <2>3 DEF PlaceOK, StAt, Writing, Created, Publishing
  <2>7. CompletionOK'
    <3>1. x \in StFiles \cup {Receipt} => stOp'[ControlPath].state = "complete"
      <4>1. x \in StFiles \cup {Receipt} => x # ControlPath /\ stOp[ControlPath].state = "complete"
        BY <1>0, <1>x, PathNames DEF CompletionOK, StAt
      <4> QED BY <2>2, <4>1, PathNames
    <3>2. x = Receipt => \A f \in StFiles : stOp'[f] = stOp[f]
      BY <2>2, PathNames
    <3> QED BY <1>0, <1>2, <1>x, <2>3, <2>5, <3>1, <3>2 DEF CompletionOK, StAt, Writing, Publishing
  <2>8. ASSUME Undisturbed
        PROVE  PlaceTold' /\ ReceiptTold'
    <3>1. PlaceTold'
      BY <1>0, <1>2, <1>x, <2>1, <2>2, <2>3, <2>5 DEF PlaceTold, StAt, Writing
    <3>2. CASE x = Receipt
      <4>1. \A f \in StFiles : stOp'[f] = stOp[f] /\ stOp[f].state = "complete"
        BY <1>0, <1>x, <2>2, <3>2, PathNames DEF CompletionOK, StAt
      <4>2. ReceiptBytes' = ReceiptBytes
        BY <1>2, <4>1, SameReceipt
      <4> QED BY <2>1, <2>2, <2>5, <3>1, <3>2, <4>1, <4>2 DEF ReceiptTold
    <3>3. CASE x # Receipt
      <4>1. ASSUME stOp'[Receipt].state # "none"
            PROVE  stOp'[Receipt].sha = ReceiptBytes' /\ \A f \in StFiles : stOp'[f].state = "complete"
        <5>1. stOp'[Receipt] = stOp[Receipt]
          BY <2>2, <3>3, PathNames
        <5>2. stOp[Receipt].sha = ReceiptBytes /\ \A f \in StFiles : stOp[f].state = "complete"
          BY <2>8, <4>1, <5>1 DEF ReceiptTold
        <5>3. \A f \in StFiles : f # x /\ stOp'[f] = stOp[f]
          BY <1>0, <2>2, <5>2, PathNames
        <5>4. ReceiptBytes' = ReceiptBytes
          BY <1>2, <5>3, SameReceipt
        <5> QED BY <5>1, <5>2, <5>3, <5>4
      <4> QED BY <2>5, <3>1, <4>1 DEF ReceiptTold
    <3> QED BY <3>2, <3>3
  <2>9. stRun.pc # "down" /\ stRun' \in RunRow /\ stTemp' \in [StPaths -> TempRow] /\ stFinal' \in [StPaths -> FinalRow]
    BY <1>0, <1>2 DEF StAt, StShaped
  <2>10. \A y \in StPaths \ {x} : stOp'[y] = stOp[y] /\ stTemp'[y] = stTemp[y] /\ stFinal'[y] = stFinal[y]
    BY <1>2, <2>2
  <2> QED BY <1>2, <2>2, <2>4, <2>5, <2>6, <2>7, <2>8, <2>9, <2>10, WriteKeeps
<1> HIDE DEF op
<1> QED BY <1>0, <1>1, <1>2

\* create_directory: what is certified already is gone past, what is missing is made.
LEMMA MakeKeeps ==
  ASSUME StInv, MakeDirectory
  PROVE  StInv'
<1> USE DEF StInv
<1>0. /\ StAt("op") /\ X = Root /\ stOp[Root].state # "none"
      /\ \/ (Alien(Root) \/ ~ControlHolds) /\ Refusal("failed")
         \/ StOn("op", ControlPath) /\ OnlyRun
         \/ OwnedFinal(Root) /\ StGo("complete") /\ OnlyRun
         \/ /\ stFinal' = [stFinal EXCEPT ![Root].bytes = MadeDirectory]
            /\ ~Alien(Root) /\ ~(OwnedFinal(Root) /\ stOp[Root].state \in {"complete", "intent"})
            /\ StGo(IF MadeDirectory = "bare" THEN "certify" ELSE "complete")
            /\ stPlan' = stPlan /\ stState' = stState /\ stOp' = stOp /\ stTemp' = stTemp
            /\ stTouched' = stTouched /\ stLeft' = stLeft
  BY DEF MakeDirectory
<1>p. PathOK(Root) /\ (Undisturbed => PathTold(Root)) /\ stFinal[Root] \in FinalRow /\ stOp[Root] \in OpRow /\ Root \in StPaths
      /\ stFinal[Root].bytes \in {"none", "bare", "good"}
  BY PathNames DEF PathsOK, PathOK, StShaped
<1>s. stState \in {"transferring", "verifying"}
  BY <1>0 DEF StAt, PlaceOK
<1>1. CASE (Alien(Root) \/ ~ControlHolds) /\ Refusal("failed")
  <2>1. Undisturbed => stFinal[Root].bytes = "bare"
    BY <1>1, <1>p, ChecksPass DEF Alien
  <2> QED BY <1>1, <2>1, RefusalKeeps
<1>2. CASE StOn("op", ControlPath) /\ OnlyRun
  <2>0. /\ stPlan' = stPlan /\ stState' = stState /\ stOp' = stOp /\ stTemp' = stTemp
        /\ stFinal' = stFinal /\ stTouched' = stTouched /\ stLeft' = stLeft
    BY <1>2 DEF OnlyRun
  <2>1. stRun' \in RunRow /\ stRun'.pc = "op" /\ stRun'.cur = ControlPath /\ stRun'.tried = {} /\ X' = ControlPath
    BY <1>2, OnEffect, PathNames DEF StPcs, X
  <2>2. StFiles' = StFiles /\ TriedInOrder'
    BY <2>0, <2>1, SamePlan, FreshTried
  <2>3. PlaceOK' /\ CompletionOK' /\ PlaceTold'
    BY <1>s, <2>0, <2>1, <2>2, PathNames DEF PlaceOK, CompletionOK, PlaceTold, StAt, Writing, Created, Publishing
  <2> QED BY <1>2, <2>1, <2>2, <2>3, RunKeeps
<1>3. CASE OwnedFinal(Root) /\ StGo("complete") /\ OnlyRun
  <2>0. /\ stPlan' = stPlan /\ stState' = stState /\ stOp' = stOp /\ stTemp' = stTemp
        /\ stFinal' = stFinal /\ stTouched' = stTouched /\ stLeft' = stLeft
    BY <1>3 DEF OnlyRun
  <2>1. stRun' \in RunRow /\ stRun'.pc = "complete" /\ stRun'.tried = stRun.tried /\ X' = Root
    BY <1>0, <1>3, StGoEffect DEF StPcs, X
  <2>2. StFiles' = StFiles /\ TriedInOrder'
    BY <2>0, <2>1, SamePlan, FreshTried
  <2>3. PlaceOK' /\ CompletionOK' /\ PlaceTold'
    BY <1>3, <1>s, <1>p, <2>0, <2>1, <2>2, PathNames
       DEF PlaceOK, CompletionOK, PlaceTold, StAt, Writing, Created, Publishing, OwnedFinal
  <2> QED BY <1>3, <2>1, <2>2, <2>3, RunKeeps
<1>4. CASE /\ stFinal' = [stFinal EXCEPT ![Root].bytes = MadeDirectory]
           /\ ~Alien(Root) /\ ~(OwnedFinal(Root) /\ stOp[Root].state \in {"complete", "intent"})
           /\ StGo(IF MadeDirectory = "bare" THEN "certify" ELSE "complete")
           /\ stPlan' = stPlan /\ stState' = stState /\ stOp' = stOp /\ stTemp' = stTemp
           /\ stTouched' = stTouched /\ stLeft' = stLeft
  <2> DEFINE c == IF MadeDirectory = "bare" THEN "certify" ELSE "complete"
             row == [stFinal[Root] EXCEPT !.bytes = MadeDirectory]
  <2>1. MadeDirectory \in {"bare", "good"} /\ c \in {"certify", "complete"} /\ c \in StPcs
        /\ (c = "certify" <=> MadeDirectory = "bare")
    BY DEF MadeDirectory, StPcs
  <2>2. row \in FinalRow /\ row.bytes = MadeDirectory
    BY <1>p, <2>1 DEF FinalRow
  <2>3. stRun' \in RunRow /\ stRun'.pc = c /\ stRun'.tried = stRun.tried /\ X' = Root
    BY <1>0, <1>4, <2>1, StGoEffect DEF X
  <2>4. stFinal' = [stFinal EXCEPT ![Root] = row]
    BY <1>4
  <2> HIDE DEF c, row
  <2>5. /\ stFinal' \in [StPaths -> FinalRow] /\ stFinal'[Root] = row
        /\ \A y \in StPaths \ {Root} : stOp'[y] = stOp[y] /\ stTemp'[y] = stTemp[y] /\ stFinal'[y] = stFinal[y]
    BY <1>4, <1>p, <2>2, <2>4 DEF StShaped
  <2>6. StFiles' = StFiles /\ TriedInOrder'
    BY <1>4, <2>3, SamePlan, FreshTried
  <2>7. stOp[Root].state \in {"intent", "complete"}
    BY <1>0, <1>p DEF PathOK, OpRow
  <2>8. ASSUME Undisturbed
        PROVE  stOp[Root].state = "intent"
    BY <1>4, <1>p, <2>7, <2>8 DEF PathTold, OwnedFinal
  <2>9. PathOK(Root)' /\ (Undisturbed => PathTold(Root)')
    <3>1. stOp'[Root] = stOp[Root] /\ stTemp'[Root] = stTemp[Root] /\ stFinal'[Root].bytes \in {"bare", "good"}
      BY <1>4, <2>1, <2>2, <2>5
    <3>2. PathOK(Root)'
      BY <1>p, <2>6, <2>7, <3>1, PathNames DEF PathOK
    <3> QED BY <2>7, <2>8, <3>1, <3>2 DEF PathTold
  <2>10. PlaceOK'
    BY <1>0, <1>4, <1>s, <2>1, <2>2, <2>3, <2>5 DEF PlaceOK, StAt, Writing, Created, Publishing
  <2>11. CompletionOK'
    BY <2>1, <2>3, <2>6, PathNames DEF CompletionOK, StAt, Writing, Publishing
  <2>12. PlaceTold'
    <3>1. c = "complete" => stFinal'[Root].bytes = "good"
      BY <2>1, <2>2, <2>5
    <3> QED BY <2>1, <2>3, <2>6, <3>1, PathNames DEF PlaceTold, StAt, Writing
  <2>13. ReceiptBytes' = ReceiptBytes
    BY <1>4, SameReceipt
  <2>14. Undisturbed => ReceiptTold'
    BY <1>4, <2>6, <2>13 DEF ReceiptTold
  <2>15. stOp' \in [StPaths -> OpRow] /\ stTemp' \in [StPaths -> TempRow] /\ stRun.pc # "down"
    BY <1>0, <1>4 DEF StShaped, StAt
  <2> QED BY <1>4, <1>p, <2>3, <2>5, <2>6, <2>9, <2>10, <2>11, <2>12, <2>14, <2>15, WriteKeeps
<1> QED BY <1>0, <1>1, <1>2, <1>3, <1>4

\* A receipt once intended is kept by a write at another path, or at a file that is not
\* complete (then no receipt was intended).
LEMMA ReceiptKept ==
  ASSUME ReceiptTold, StShaped, stPlan' = stPlan, NEW x \in StPaths,
         \A y \in StPaths \ {x} : stOp'[y] = stOp[y],
         x \in StFiles => stOp[x].state # "complete" \/ (stOp'[x].state = "complete" /\ stOp'[x].src = stOp[x].src),
         x = Receipt => stOp'[x].sha = stOp[x].sha /\ stOp[x].state # "none"
  PROVE  ReceiptTold'
<1>1. ASSUME stOp'[Receipt].state # "none"
      PROVE  stOp'[Receipt].sha = ReceiptBytes' /\ \A f \in StFiles : stOp'[f].state = "complete"
  <2>1. stOp[Receipt].state # "none" /\ stOp'[Receipt].sha = stOp[Receipt].sha
    BY <1>1, PathNames
  <2>2. stOp[Receipt].sha = ReceiptBytes /\ \A f \in StFiles : stOp[f].state = "complete"
    BY <2>1 DEF ReceiptTold
  <2>3. \A f \in StFiles : stOp'[f].state = "complete" /\ stOp'[f].src = stOp[f].src
    BY <2>2, PathNames
  <2>4. ReceiptBytes' = ReceiptBytes
    BY <2>3, SameReceipt
  <2> QED BY <2>1, <2>2, <2>3, <2>4
<1> QED BY <1>1, SamePlan DEF ReceiptTold

\* The owner mark and the certificate.
LEMMA CertifyKeeps ==
  ASSUME StInv, CertifyDirectory
  PROVE  StInv'
<1> USE DEF StInv
<1>0. /\ StAt("certify") /\ X = Root /\ stFinal[Root].bytes = "bare" /\ StGo("complete") /\ stPlan' = stPlan
      /\ stState' = stState /\ stOp' = stOp /\ stTemp' = stTemp /\ stTouched' = stTouched /\ stLeft' = stLeft
      /\ stFinal' = [stFinal EXCEPT ![Root].bytes = "good"] /\ stState \in {"transferring", "verifying"}
      /\ stOp[Root].state # "none"
  BY DEF CertifyDirectory, PlaceOK, StAt
<1>p. PathOK(Root) /\ (Undisturbed => PathTold(Root)) /\ stFinal[Root] \in FinalRow /\ Root \in StPaths
  BY PathNames DEF PathsOK, StShaped
<1> DEFINE row == [stFinal[Root] EXCEPT !.bytes = "good"]
<1>1. row \in FinalRow /\ row.bytes = "good"
  BY <1>p DEF FinalRow
<1>2. stFinal' = [stFinal EXCEPT ![Root] = row]
  BY <1>0
<1> HIDE DEF row
<1>3. /\ stFinal' \in [StPaths -> FinalRow] /\ stFinal'[Root] = row /\ stFinal'[Root].bytes = "good"
      /\ \A y \in StPaths \ {Root} : stOp'[y] = stOp[y] /\ stTemp'[y] = stTemp[y] /\ stFinal'[y] = stFinal[y]
  BY <1>0, <1>p, <1>1, <1>2 DEF StShaped
<1>4. stRun' \in RunRow /\ stRun'.pc = "complete" /\ stRun'.tried = stRun.tried /\ X' = Root
  BY <1>0, StGoEffect DEF StPcs, X
<1>5. StFiles' = StFiles /\ TriedInOrder'
  BY <1>0, <1>4, SamePlan, FreshTried
<1>6. PathOK(Root)' /\ (Undisturbed => PathTold(Root)')
  BY <1>0, <1>p, <1>3, <1>5, PathNames DEF PathOK, PathTold
<1>7. PlaceOK' /\ CompletionOK' /\ PlaceTold'
  BY <1>0, <1>3, <1>4, <1>5, PathNames DEF PlaceOK, CompletionOK, PlaceTold, StAt, Writing, Created, Publishing
<1>8. Undisturbed => ReceiptTold'
  BY <1>0, <1>p, ReceiptKept, PathNames
<1>9. stOp' \in [StPaths -> OpRow] /\ stTemp' \in [StPaths -> TempRow] /\ stRun.pc # "down"
  BY <1>0 DEF StShaped, StAt
<1> QED BY <1>0, <1>p, <1>3, <1>4, <1>5, <1>6, <1>7, <1>8, <1>9, WriteKeeps

\* What holds of the path the session writes at.
LEMMA WritingPlace ==
  ASSUME StInv, stRun.pc \in Writing
  PROVE  /\ X \in StPaths \ {Root} /\ stState \in {"transferring", "verifying"} /\ stRun.pc # "down"
         /\ X \in StFiles => stRun.tried # {}
         /\ X \in StFiles \cup {Receipt} => X # ControlPath /\ stOp[ControlPath].state = "complete"
         /\ X = Receipt => \A f \in StFiles : /\ stOp[f].state = "complete"
                                              /\ f \notin stTouched => stFinal[f].bytes = "good"
         /\ X = Receipt => stOp[X].sha = ReceiptBytes /\ X \notin StFiles
         /\ Undisturbed => stFinal[X].bytes = "none" /\ (X \in StFiles => stOp[X].state # "complete") /\ PathTold(X)
         /\ PathOK(X) /\ stOp[X] \in OpRow /\ stTemp[X] \in TempRow /\ stFinal[X] \in FinalRow
<1> USE DEF StInv
<1>1. X \in StPaths /\ stRun.pc # "down"
  BY DEF StShaped, RunRow, X, Writing
<1>2. PathOK(X) /\ stOp[X] \in OpRow /\ stTemp[X] \in TempRow /\ stFinal[X] \in FinalRow /\ (Undisturbed => PathTold(X))
  BY <1>1 DEF PathsOK, StShaped
<1>3. X # Root /\ stState \in {"transferring", "verifying"} /\ (X \in StFiles => stRun.tried # {})
  BY <1>1 DEF PlaceOK
<1>4. Undisturbed => stFinal[X].bytes = "none" /\ (X \in StFiles => stOp[X].state # "complete")
  BY DEF PlaceTold
<1>5. /\ X \in StFiles \cup {Receipt} => X # ControlPath /\ stOp[ControlPath].state = "complete"
      /\ X = Receipt => X \notin StFiles
  BY <1>1, PathNames DEF CompletionOK
<1>6. X = Receipt =>
        /\ stOp[X].sha = ReceiptBytes
        /\ \A f \in StFiles : /\ stOp[f].state = "complete"
                              /\ f \notin stTouched => stFinal[f].bytes = "good"
  BY <1>1 DEF CompletionOK
<1> QED BY <1>1, <1>2, <1>3, <1>4, <1>5, <1>6

\* What the completion rests on is kept by a write of the session at its own path.
LEMMA CompletionKept ==
  ASSUME StInv, stRun.pc \in Writing \cup {"publish", "complete"}, NEW x \in StPaths, x = X, stPlan' = stPlan,
         stTouched' = stTouched, stFinal' = stFinal \/ (x = Receipt => \A f \in StFiles : stFinal'[f] = stFinal[f]),
         stRun'.cur = stRun.cur, stRun'.pc \in Writing \cup {"publish", "complete", "discard"},
         \A y \in StPaths \ {x} : stOp'[y] = stOp[y],
         x = Receipt => stOp'[x].sha = stOp[x].sha
  PROVE  CompletionOK'
<1> USE DEF StInv
<1>1. X' = x /\ StFiles' = StFiles /\ stRun.pc # "down" /\ stRun.pc \in Writing \cup Publishing
  BY SamePlan DEF X, Writing, Publishing
<1>2. x \in StFiles \cup {Receipt} => stOp'[ControlPath].state = "complete"
  <2>1. x \in StFiles \cup {Receipt} => x # ControlPath /\ stOp[ControlPath].state = "complete"
    BY <1>1, PathNames DEF CompletionOK
  <2> QED BY <2>1, PathNames
<1>3. ASSUME x = Receipt
      PROVE  /\ stOp'[x].sha = ReceiptBytes'
             /\ \A f \in StFiles : stOp'[f].state = "complete" /\ (f \notin stTouched => stFinal'[f].bytes = "good")
  <2>1. \A f \in StFiles : stOp'[f] = stOp[f] /\ stFinal'[f] = stFinal[f]
    BY <1>3, PathNames
  <2>2. ReceiptBytes' = ReceiptBytes
    BY <2>1, SameReceipt
  <2>3. stOp[x].sha = ReceiptBytes
        /\ \A f \in StFiles : stOp[f].state = "complete" /\ (f \notin stTouched => stFinal[f].bytes = "good")
    BY <1>1, <1>3 DEF CompletionOK
  <2> QED BY <1>3, <2>1, <2>2, <2>3
<1>4. stRun'.pc \notin {"step", "verify", "receipt"}
  BY DEF Writing
<1> QED BY <1>1, <1>2, <1>3, <1>4 DEF CompletionOK, StAt

\* _write: the old proof is cleared.
LEMMA ClearKeeps ==
  ASSUME StInv, ClearProof
  PROVE  StInv'
<1> USE DEF StInv
<1>w. stRun.pc = "write" /\ stRun.pc \in Writing
  BY DEF ClearProof, StAt, Writing
<1>x. PICK x \in StPaths : x = X
  BY <1>w, WritingPlace
<1> DEFINE op == [stOp[x] EXCEPT !.state = "intent", !.src = OwnBytes]
<1>0. \/ (stFinal[x].bytes # "none" \/ ~ControlHolds) /\ Refusal("failed")
      \/ /\ stFinal[x].bytes = "none" /\ Record(x, op) /\ StGo("create") /\ stPlan' = stPlan /\ stState' = stState
         /\ stTemp' = stTemp /\ stFinal' = stFinal /\ stTouched' = stTouched /\ stLeft' = stLeft
  BY <1>x DEF ClearProof
<1>p. /\ x # Root /\ stState \in {"transferring", "verifying"} /\ stRun.pc # "down" /\ stOp[x] \in OpRow
      /\ x \in StFiles => stRun.tried # {}
      /\ Undisturbed => stFinal[x].bytes = "none" /\ (x \in StFiles => stOp[x].state # "complete")
      /\ PathOK(x) /\ (Undisturbed => PathTold(x)) /\ stFinal[x] \in FinalRow
  BY <1>w, <1>x, WritingPlace
<1>1. CASE (stFinal[x].bytes # "none" \/ ~ControlHolds) /\ Refusal("failed")
  <2>1. ~Undisturbed
    BY <1>1, <1>p, ChecksPass
  <2> QED BY <1>1, <2>1, RefusalKeeps
<1>2. CASE /\ stFinal[x].bytes = "none" /\ Record(x, op) /\ StGo("create") /\ stPlan' = stPlan /\ stState' = stState
           /\ stTemp' = stTemp /\ stFinal' = stFinal /\ stTouched' = stTouched /\ stLeft' = stLeft
  <2>1. op \in OpRow /\ op.state = "intent" /\ op.sha = stOp[x].sha
    BY <1>p DEF OpRow, Origins
  <2> HIDE DEF op
  <2>2. stOp' \in [StPaths -> OpRow] /\ stOp'[x] = op /\ \A y \in StPaths \ {x} : stOp'[y] = stOp[y]
    BY <1>2, <2>1, RecordEffect
  <2>3. stRun' \in RunRow /\ stRun'.pc = "create" /\ stRun'.cur = stRun.cur /\ stRun'.tried = stRun.tried /\ X' = x
    BY <1>2, <1>x, StGoEffect DEF StPcs, X
  <2>4. StFiles' = StFiles /\ TriedInOrder'
    BY <1>2, <2>3, SamePlan, FreshTried
  <2>5. PathOK(x)' /\ (Undisturbed => PathTold(x)')
    BY <1>2, <1>p, <2>1, <2>2, <2>4 DEF PathOK, PathTold, Proven
  <2>6. PlaceOK'
    BY <1>2, <1>p, <2>1, <2>2, <2>3, <2>4 DEF PlaceOK, StAt, Writing, Created, Publishing
  <2>7. CompletionOK'
    BY <1>2, <1>w, <1>x, <2>1, <2>2, <2>3, CompletionKept DEF Writing
  <2>8. Undisturbed => PlaceTold'
    BY <1>2, <1>p, <2>1, <2>2, <2>3, <2>4 DEF PlaceTold, StAt, Writing
  <2>9. Undisturbed => ReceiptTold'
    <3>1. x = Receipt => stOp[x].state # "none"
      BY <1>w, <1>x DEF PlaceOK, StAt
    <3> QED BY <1>2, <1>p, <2>1, <2>2, <3>1, ReceiptKept
  <2>10. stTemp' \in [StPaths -> TempRow] /\ stFinal' \in [StPaths -> FinalRow]
         /\ \A y \in StPaths \ {x} : stOp'[y] = stOp[y] /\ stTemp'[y] = stTemp[y] /\ stFinal'[y] = stFinal[y]
    BY <1>2, <2>2 DEF StShaped
  <2> QED BY <1>2, <1>p, <2>2, <2>3, <2>4, <2>5, <2>6, <2>7, <2>8, <2>9, <2>10, WriteKeeps
<1> HIDE DEF op
<1> QED BY <1>0, <1>1, <1>2

\* The temporary of a file whose proof is cleared may change (DiscardOld, CreateTemp, WriteChunk).
LEMMA TempWritten ==
  ASSUME StInv, stRun.pc \in {"create", "chunk"}, NEW x \in StPaths, x = X, NEW row \in TempRow,
         NEW c \in Created, stTemp' = [stTemp EXCEPT ![x] = row],
         stRun' \in RunRow, stRun'.pc = c, stRun'.cur = stRun.cur, stRun'.tried = stRun.tried,
         c \in {"chunk", "prepare"} => row.from = Reading, c = "prepare" => row.bytes = "good",
         stPlan' = stPlan, stState' = stState, stOp' = stOp, stFinal' = stFinal,
         stTouched' = stTouched, stLeft' = stLeft
  PROVE  StInv'
<1> USE DEF StInv
<1>w. stRun.pc \in Writing /\ stRun.pc \in Created /\ c \in Writing
  BY DEF Writing, Created
<1>p. /\ x # Root /\ stState \in {"transferring", "verifying"} /\ stRun.pc # "down"
      /\ x \in StFiles => stRun.tried # {}
      /\ Undisturbed => stFinal[x].bytes = "none" /\ (x \in StFiles => stOp[x].state # "complete")
      /\ PathOK(x) /\ (Undisturbed => PathTold(x))
  BY <1>w, WritingPlace
<1>i. stOp[x].state = "intent" /\ stFinal[x].bytes \in {"none", "foreign"}
  BY <1>w DEF PlaceOK
<1>1. stTemp' \in [StPaths -> TempRow] /\ stTemp'[x] = row /\ \A y \in StPaths \ {x} : stTemp'[y] = stTemp[y]
  BY DEF StShaped
<1>2. X' = x /\ StFiles' = StFiles /\ Reading' = Reading /\ TriedInOrder'
  BY SamePlan, FreshTried DEF X, Reading
<1>3. PathOK(x)' /\ (Undisturbed => PathTold(x)')
  BY <1>p, <1>i, <1>2 DEF PathOK, PathTold, Proven
<1>4. PlaceOK'
  BY <1>w, <1>p, <1>i, <1>1, <1>2 DEF PlaceOK, StAt, Writing, Created, Publishing
<1>5. CompletionOK'
  BY <1>w, CompletionKept
<1>6. Undisturbed => PlaceTold'
  BY <1>w, <1>p, <1>i, <1>2 DEF PlaceTold, StAt, Writing, Created
<1>7. Undisturbed => ReceiptTold'
  BY <1>p, <1>i, ReceiptKept
<1>8. stOp' \in [StPaths -> OpRow] /\ stFinal' \in [StPaths -> FinalRow]
      /\ \A y \in StPaths \ {x} : stOp'[y] = stOp[y] /\ stTemp'[y] = stTemp[y] /\ stFinal'[y] = stFinal[y]
  BY <1>1 DEF StShaped
<1> QED BY <1>p, <1>1, <1>2, <1>3, <1>4, <1>5, <1>6, <1>7, <1>8, WriteKeeps

\* The temporary of the last attempt is discarded.
LEMMA DiscardOldKeeps ==
  ASSUME StInv, DiscardOld
  PROVE  StInv'
<1>1. stRun.pc = "create" /\ stRun' = stRun /\ stTemp' = [stTemp EXCEPT ![X] = NoBytes]
      /\ stPlan' = stPlan /\ stState' = stState /\ stOp' = stOp /\ stFinal' = stFinal
      /\ stTouched' = stTouched /\ stLeft' = stLeft
  BY DEF DiscardOld, StAt
<1>2. X \in StPaths /\ stRun \in RunRow /\ NoBytes \in TempRow /\ "create" \in Created
  BY DEF StInv, StShaped, RunRow, X, NoBytes, TempRow, Origins, Created
<1> QED BY <1>1, <1>2, TempWritten

\* A new one is created for the source that was opened.
LEMMA CreateTempKeeps ==
  ASSUME StInv, CreateTemp
  PROVE  StInv'
<1> DEFINE row == [bytes |-> "part", from |-> Reading]
<1>1. stRun.pc = "create" /\ StGo("chunk") /\ stTemp' = [stTemp EXCEPT ![X] = row]
      /\ stPlan' = stPlan /\ stState' = stState /\ stOp' = stOp /\ stFinal' = stFinal
      /\ stTouched' = stTouched /\ stLeft' = stLeft
  BY DEF CreateTemp, StAt
<1>2. stRun' \in RunRow /\ stRun'.pc = "chunk" /\ stRun'.cur = stRun.cur /\ stRun'.tried = stRun.tried
  BY <1>1, StGoEffect DEF StInv, StPcs
<1>3. X \in StPaths /\ Reading \in Origins
  BY <1>1, ReadingTyped DEF StInv, StShaped, RunRow, X, Writing
<1>4. row \in TempRow /\ row.from = Reading /\ "chunk" \in Created
  BY <1>3 DEF TempRow, Created
<1> HIDE DEF row
<1> QED BY <1>1, <1>2, <1>3, <1>4, TempWritten

\* The bytes are written and read back.
LEMMA WriteChunkKeeps ==
  ASSUME StInv, WriteChunk
  PROVE  StInv'
<1> DEFINE row == [stTemp[X] EXCEPT !.bytes = "good"]
<1>1. stRun.pc = "chunk" /\ StGo("prepare") /\ stTemp' = [stTemp EXCEPT ![X] = row]
      /\ stPlan' = stPlan /\ stState' = stState /\ stOp' = stOp /\ stFinal' = stFinal
      /\ stTouched' = stTouched /\ stLeft' = stLeft
  BY DEF WriteChunk, StAt
<1>2. stRun' \in RunRow /\ stRun'.pc = "prepare" /\ stRun'.cur = stRun.cur /\ stRun'.tried = stRun.tried
  BY <1>1, StGoEffect DEF StInv, StPcs
<1>3. X \in StPaths /\ stTemp[X].from = Reading
  BY <1>1 DEF StInv, StShaped, RunRow, X, PlaceOK
<1>4. stTemp[X] \in TempRow
  BY <1>3 DEF StInv, StShaped
<1>5. row \in TempRow /\ row.from = Reading /\ row.bytes = "good" /\ "prepare" \in Created
  BY <1>3, <1>4 DEF TempRow, Created
<1> HIDE DEF row
<1> QED BY <1>1, <1>2, <1>3, <1>5, TempWritten

\* The journal says from which source the bytes were read.
LEMMA PreparedKeeps ==
  ASSUME StInv, RecordPrepared
  PROVE  StInv'
<1> USE DEF StInv
<1>w. stRun.pc = "prepare" /\ stRun.pc \in Writing
  BY DEF RecordPrepared, StAt, Writing
<1>x. PICK x \in StPaths : x = X
  BY <1>w, WritingPlace
<1> DEFINE op == [stOp[x] EXCEPT !.state = "prepared", !.src = Reading]
<1>0. /\ Record(x, op) /\ StGo("publish") /\ stPlan' = stPlan /\ stState' = stState
      /\ stTemp' = stTemp /\ stFinal' = stFinal /\ stTouched' = stTouched /\ stLeft' = stLeft
  BY <1>x DEF RecordPrepared
<1>p. /\ x # Root /\ stState \in {"transferring", "verifying"} /\ stRun.pc # "down" /\ stOp[x] \in OpRow
      /\ Undisturbed => stFinal[x].bytes = "none" /\ (x \in StFiles => stOp[x].state # "complete")
      /\ PathOK(x) /\ (Undisturbed => PathTold(x))
  BY <1>w, <1>x, WritingPlace
<1>i. /\ stOp[x].state = "intent" /\ stFinal[x].bytes \in {"none", "foreign"}
      /\ stTemp[x].bytes = "good" /\ stTemp[x].from = Reading
  BY <1>w, <1>x DEF PlaceOK, Created, StAt
<1>r. Reading \in Origins /\ (x \in StFiles => Reading # OwnBytes)
  BY <1>w, <1>x, ReadingTyped
<1>1. op \in OpRow /\ op.state = "prepared" /\ op.sha = stOp[x].sha /\ op.src = Reading
  BY <1>p, <1>r DEF OpRow
<1> HIDE DEF op
<1>2. stOp' \in [StPaths -> OpRow] /\ stOp'[x] = op /\ \A y \in StPaths \ {x} : stOp'[y] = stOp[y]
  BY <1>0, <1>1, RecordEffect
<1>3. stRun' \in RunRow /\ stRun'.pc = "publish" /\ stRun'.cur = stRun.cur /\ stRun'.tried = stRun.tried /\ X' = x
  BY <1>0, <1>x, StGoEffect DEF StPcs, X
<1>4. StFiles' = StFiles /\ TriedInOrder'
  BY <1>0, <1>3, SamePlan, FreshTried
<1>5. PathOK(x)' /\ (Undisturbed => PathTold(x)')
  BY <1>0, <1>p, <1>i, <1>r, <1>1, <1>2, <1>4 DEF PathOK, PathTold, Proven
<1>6. PlaceOK'
  BY <1>0, <1>p, <1>1, <1>2, <1>3, <1>4 DEF PlaceOK, StAt, Writing, Created, Publishing, Proven
<1>7. CompletionOK'
  BY <1>0, <1>w, <1>x, <1>1, <1>2, <1>3, CompletionKept DEF Writing
<1>8. Undisturbed => PlaceTold'
  BY <1>0, <1>p, <1>i, <1>1, <1>2, <1>3, <1>4 DEF PlaceTold, StAt, Writing
<1>9. Undisturbed => ReceiptTold'
  BY <1>0, <1>p, <1>i, <1>1, <1>2, ReceiptKept
<1>10. stTemp' \in [StPaths -> TempRow] /\ stFinal' \in [StPaths -> FinalRow]
       /\ \A y \in StPaths \ {x} : stOp'[y] = stOp[y] /\ stTemp'[y] = stTemp[y] /\ stFinal'[y] = stFinal[y]
  BY <1>0, <1>2 DEF StShaped
<1> QED BY <1>0, <1>p, <1>2, <1>3, <1>4, <1>5, <1>6, <1>7, <1>8, <1>9, <1>10, WriteKeeps

\* What holds of the path the session publishes at.
LEMMA PublishingPlace ==
  ASSUME StInv, stRun.pc \in Publishing
  PROVE  /\ X \in StPaths /\ stState \in {"transferring", "verifying"} /\ stRun.pc # "down"
         /\ X # Root => stOp[X].state \in Proven
         /\ stRun.pc = "publish" => X # Root
         /\ PathOK(X) /\ (Undisturbed => PathTold(X))
         /\ stOp[X] \in OpRow /\ stTemp[X] \in TempRow /\ stFinal[X] \in FinalRow
<1>1. X \in StPaths /\ stRun.pc # "down"
  BY DEF StInv, StShaped, RunRow, X, Publishing
<1> QED BY <1>1 DEF StInv, PathsOK, PlaceOK, StShaped

\* _publish: the object takes its name where nothing is, or is there already.
LEMMA PublishKeeps ==
  ASSUME StInv, PublishObject
  PROVE  StInv'
<1> USE DEF StInv
<1>w. stRun.pc = "publish" /\ stRun.pc \in Publishing
  BY DEF PublishObject, StAt, Publishing
<1>x. PICK x \in StPaths : x = X
  BY <1>w, PublishingPlace
<1> DEFINE linked == /\ stFinal[x].bytes = "none" /\ stTemp[x].bytes = "good" /\ stFinal' = [stFinal EXCEPT ![x] = stTemp[x]]
                     /\ stTemp' = (IF stPlan.fat THEN [stTemp EXCEPT ![x] = NoBytes] ELSE stTemp)
                     /\ StGo("complete")
                     /\ stPlan' = stPlan /\ stState' = stState /\ stOp' = stOp /\ stTouched' = stTouched /\ stLeft' = stLeft
           there == stFinal[x].bytes = "good" /\ StGo("complete") /\ OnlyRun
           refused == /\ ~(stFinal[x].bytes = "none" /\ stTemp[x].bytes = "good" /\ ControlHolds)
                      /\ ~(stFinal[x].bytes = "good" /\ ControlHolds) /\ Refusal("failed")
<1>0. linked \/ there \/ refused
  BY <1>x DEF PublishObject, AfterPublish
<1>p. /\ x # Root /\ stState \in {"transferring", "verifying"} /\ stRun.pc # "down" /\ stOp[x].state \in Proven
      /\ PathOK(x) /\ (Undisturbed => PathTold(x))
      /\ stOp[x] \in OpRow /\ stTemp[x] \in TempRow /\ stFinal[x] \in FinalRow
  BY <1>w, <1>x, PublishingPlace
<1>1. CASE refused
  <2>1. ~Undisturbed
    BY <1>1, <1>w, <1>x, ChecksPass DEF PlaceTold, StAt
  <2> QED BY <1>1, <2>1, RefusalKeeps
<1>2. CASE there
  <2>0. /\ stPlan' = stPlan /\ stState' = stState /\ stOp' = stOp /\ stTemp' = stTemp
        /\ stFinal' = stFinal /\ stTouched' = stTouched /\ stLeft' = stLeft
    BY <1>2 DEF OnlyRun
  <2>1. stRun' \in RunRow /\ stRun'.pc = "complete" /\ stRun'.cur = stRun.cur /\ stRun'.tried = stRun.tried /\ X' = x
    BY <1>2, <1>x, StGoEffect DEF StPcs, X
  <2>2. StFiles' = StFiles /\ TriedInOrder'
    BY <2>0, <2>1, SamePlan, FreshTried
  <2>3. PlaceOK'
    BY <1>p, <2>0, <2>1 DEF PlaceOK, StAt, Writing, Created, Publishing
  <2>4. CompletionOK'
    BY <1>w, <1>x, <2>0, <2>1, CompletionKept DEF Publishing
  <2>5. PlaceTold'
    BY <1>2, <2>0, <2>1, <2>2 DEF PlaceTold, StAt, Writing
  <2> QED BY <1>2, <2>1, <2>2, <2>3, <2>4, <2>5, RunKeeps
<1>3. CASE linked
  <2>1. /\ stFinal' \in [StPaths -> FinalRow] /\ stFinal'[x] = stTemp[x]
        /\ \A y \in StPaths \ {x} : stFinal'[y] = stFinal[y]
    BY <1>3, <1>p DEF StShaped, TempRow, FinalRow
  <2>2. /\ stTemp' \in [StPaths -> TempRow] /\ \A y \in StPaths \ {x} : stTemp'[y] = stTemp[y]
        /\ stTemp'[x] = stTemp[x] \/ stTemp'[x] = NoBytes
    <3>1. NoBytes \in TempRow
      BY DEF NoBytes, TempRow, Origins
    <3> QED BY <1>3, <3>1 DEF StShaped
  <2>3. stRun' \in RunRow /\ stRun'.pc = "complete" /\ stRun'.cur = stRun.cur /\ stRun'.tried = stRun.tried /\ X' = x
    BY <1>3, <1>x, StGoEffect DEF StPcs, X
  <2>4. StFiles' = StFiles /\ TriedInOrder'
    BY <1>3, <2>3, SamePlan, FreshTried
  <2>5. stFinal'[x].bytes = "good" /\ stFinal'[x].from = stTemp[x].from
    BY <1>3, <2>1
  <2>6. PathOK(x)' /\ PathTold(x)'
    <3>1. stOp'[x] = stOp[x] /\ stTemp'[x].bytes \in {"none", stTemp[x].bytes}
          /\ (stTemp'[x].bytes = "good" => stTemp'[x].from = stTemp[x].from)
      BY <1>3, <2>2 DEF NoBytes
    <3>2. PathOK(x)'
      BY <1>3, <1>p, <2>4, <2>5, <3>1 DEF PathOK
    <3> QED BY <1>p, <2>5, <3>1, <3>2 DEF PathTold, Proven
  <2>7. PlaceOK'
    BY <1>3, <1>p, <2>3, <2>4 DEF PlaceOK, StAt, Writing, Created, Publishing
  <2>8. CompletionOK'
    <3>1. x = Receipt => \A f \in StFiles : stFinal'[f] = stFinal[f]
      BY <2>1, PathNames
    <3> QED BY <1>3, <1>w, <1>x, <2>3, <3>1, CompletionKept DEF Publishing
  <2>9. PlaceTold'
    BY <2>3, <2>4, <2>5 DEF PlaceTold, StAt, Writing
  <2>10. Undisturbed => ReceiptTold'
    <3>1. stOp[x].state # "none"
      BY <1>p DEF Proven
    <3>2. x \in StFiles => stOp[x].state # "complete" \/ (stOp'[x].state = "complete" /\ stOp'[x].src = stOp[x].src)
      BY <1>3
    <3> QED BY <1>3, <3>1, <3>2, ReceiptKept
  <2>11. stOp' \in [StPaths -> OpRow]
         /\ \A y \in StPaths \ {x} : stOp'[y] = stOp[y] /\ stTemp'[y] = stTemp[y] /\ stFinal'[y] = stFinal[y]
    BY <1>3, <2>1, <2>2 DEF StShaped
  <2> QED BY <1>3, <1>p, <2>1, <2>2, <2>3, <2>4, <2>6, <2>7, <2>8, <2>9, <2>10, <2>11, WriteKeeps
<1> HIDE DEF linked, there, refused
<1> QED BY <1>0, <1>1, <1>2, <1>3

\* The record is complete once the name is durable.
LEMMA CompleteKeeps ==
  ASSUME StInv, RecordComplete
  PROVE  StInv'
<1> USE DEF StInv
<1>w. stRun.pc = "complete" /\ stRun.pc \in Publishing
  BY DEF RecordComplete, StAt, Publishing
<1>x. PICK x \in StPaths : x = X
  BY <1>w, PublishingPlace
<1> DEFINE op == [stOp[x] EXCEPT !.state = "complete"]
<1>0. /\ Record(x, op) /\ StGo("discard") /\ stPlan' = stPlan /\ stState' = stState
      /\ stTemp' = stTemp /\ stFinal' = stFinal /\ stTouched' = stTouched /\ stLeft' = stLeft
  BY <1>x DEF RecordComplete
<1>p. /\ stState \in {"transferring", "verifying"} /\ stRun.pc # "down" /\ (x # Root => stOp[x].state \in Proven)
      /\ PathOK(x) /\ (Undisturbed => PathTold(x)) /\ stOp[x] \in OpRow
  BY <1>w, <1>x, PublishingPlace
<1>g. Undisturbed => stFinal[x].bytes = "good"
  BY <1>w, <1>x DEF PlaceTold, StAt
<1>1. op \in OpRow /\ op.state = "complete" /\ op.sha = stOp[x].sha /\ op.src = stOp[x].src
  BY <1>p DEF OpRow
<1> HIDE DEF op
<1>2. stOp' \in [StPaths -> OpRow] /\ stOp'[x] = op /\ \A y \in StPaths \ {x} : stOp'[y] = stOp[y]
  BY <1>0, <1>1, RecordEffect
<1>3. stRun' \in RunRow /\ stRun'.pc = "discard" /\ stRun'.cur = stRun.cur /\ stRun'.tried = stRun.tried /\ X' = x
  BY <1>0, <1>x, StGoEffect DEF StPcs, X
<1>4. StFiles' = StFiles /\ TriedInOrder'
  BY <1>0, <1>3, SamePlan, FreshTried
<1>5. PathOK(x)' /\ (Undisturbed => PathTold(x)')
  <2>1. x \in StFiles => x # Root /\ stOp[x].state \in Proven
    BY <1>p, PathNames
  <2>2. stTemp'[x] = stTemp[x] /\ stFinal'[x] = stFinal[x] /\ stOp'[x].state = "complete" /\ stOp'[x].src = stOp[x].src
    BY <1>0, <1>1, <1>2
  <2>3. PathOK(x)'
    BY <1>p, <1>4, <2>1, <2>2 DEF PathOK
  <2> QED BY <1>g, <2>2, <2>3 DEF PathTold
<1>6. PlaceOK'
  BY <1>0, <1>p, <1>1, <1>2, <1>3, <1>4 DEF PlaceOK, StAt, Writing, Created, Publishing, Proven
<1>7. CompletionOK'
  BY <1>0, <1>w, <1>x, <1>1, <1>2, <1>3, CompletionKept DEF Publishing
<1>8. PlaceTold'
  BY <1>3 DEF PlaceTold, StAt, Writing
<1>9. Undisturbed => ReceiptTold'
  <2>1. x = Receipt => stOp[x].state # "none"
    BY <1>p, PathNames DEF Proven
  <2> QED BY <1>0, <1>1, <1>2, <2>1, ReceiptKept
<1>10. stTemp' \in [StPaths -> TempRow] /\ stFinal' \in [StPaths -> FinalRow]
       /\ \A y \in StPaths \ {x} : stOp'[y] = stOp[y] /\ stTemp'[y] = stTemp[y] /\ stFinal'[y] = stFinal[y]
  BY <1>0, <1>2 DEF StShaped
<1> QED BY <1>0, <1>p, <1>2, <1>3, <1>4, <1>5, <1>6, <1>7, <1>8, <1>9, <1>10, WriteKeeps

\* The temporary link goes, and the session turns to the control record, the next file or
\* the receipt.
LEMMA DiscardTempKeeps ==
  ASSUME StInv, DiscardTemp
  PROVE  StInv'
<1> USE DEF StInv
<1>w. stRun.pc = "discard" /\ stRun.pc \in Publishing
  BY DEF DiscardTemp, StAt, Publishing
<1>x. PICK x \in StPaths : x = X
  BY <1>w, PublishingPlace
<1> DEFINE c == IF x = Receipt THEN "receipt" ELSE IF x = Root THEN "op" ELSE "step"
           y1 == IF x = Root THEN ControlPath ELSE x
           ch == IF x \in StFiles THEN stRun.checked \cup {x} ELSE stRun.checked
<1>0. /\ stTemp' = [stTemp EXCEPT ![x] = NoBytes] /\ stRun' = [stRun EXCEPT !.pc = c, !.cur = y1, !.checked = ch]
      /\ stPlan' = stPlan /\ stState' = stState /\ stOp' = stOp /\ stFinal' = stFinal
      /\ stTouched' = stTouched /\ stLeft' = stLeft
  BY <1>x DEF DiscardTemp, X
<1>p. /\ stState \in {"transferring", "verifying"} /\ stRun.pc # "down"
      /\ PathOK(x) /\ (Undisturbed => PathTold(x)) /\ stOp[x].state = "complete"
  BY <1>w, <1>x, PublishingPlace DEF PlaceOK
<1>1. c \in StPcs /\ y1 \in StPaths /\ ch \in SUBSET StFiles /\ stRun \in RunRow
  BY PathNames DEF StPcs, StShaped, RunRow
<1>2. /\ x = Receipt => c = "receipt" /\ y1 = Receipt
      /\ x = Root => c = "op" /\ y1 = ControlPath
      /\ x \notin {Receipt, Root} => c = "step" /\ y1 = x
  BY PathNames
<1> HIDE DEF c, y1, ch
<1>3. stRun' \in RunRow /\ stRun'.pc = c /\ X' = y1 /\ stRun'.tried = stRun.tried
  BY <1>0, <1>1 DEF RunRow, X
<1>4. StFiles' = StFiles /\ ReceiptBytes' = ReceiptBytes /\ TriedInOrder'
  BY <1>0, <1>3, SamePlan, FreshTried DEF ReceiptBytes
<1>5. /\ stTemp' \in [StPaths -> TempRow] /\ stTemp'[x].bytes = "none" /\ \A y \in StPaths \ {x} : stTemp'[y] = stTemp[y]
  <2>1. NoBytes \in TempRow /\ NoBytes.bytes = "none"
    BY DEF NoBytes, TempRow, Origins
  <2> QED BY <1>0, <2>1 DEF StShaped
<1>6. PathOK(x)' /\ (Undisturbed => PathTold(x)')
  BY <1>0, <1>p, <1>4, <1>5 DEF PathOK, PathTold
<1>7. c \in {"receipt", "op", "step"} /\ (c = "receipt" => x = Receipt)
  BY <1>2
<1>8. PlaceOK'
  BY <1>0, <1>p, <1>2, <1>3, <1>7 DEF PlaceOK, StAt, Writing, Created, Publishing
<1>9. CompletionOK'
  <2>1. x = ControlPath \/ x \in StFiles \cup {Receipt} => stOp[ControlPath].state = "complete"
    BY <1>w, <1>x, <1>p DEF CompletionOK
  <2>2. c = "step" \/ y1 \in StFiles \cup {Receipt} => stOp[ControlPath].state = "complete"
    BY <1>2, <1>7, <2>1, PathNames DEF StPaths
  <2>3. y1 = Receipt => /\ x = Receipt /\ stOp[x].sha = ReceiptBytes
                        /\ \A f \in StFiles : /\ stOp[f].state = "complete"
                                              /\ f \notin stTouched => stFinal[f].bytes = "good"
    BY <1>w, <1>x, <1>2, PathNames DEF CompletionOK
  <2> QED BY <1>0, <1>3, <1>4, <1>7, <2>2, <2>3 DEF CompletionOK, StAt, Writing, Publishing
<1>10. PlaceTold'
  BY <1>2, <1>3, <1>4, <1>7, PathNames DEF PlaceTold, StAt, Writing
<1>11. Undisturbed => ReceiptTold'
  BY <1>0, <1>4 DEF ReceiptTold
<1>12. stOp' \in [StPaths -> OpRow] /\ stFinal' \in [StPaths -> FinalRow]
       /\ \A y \in StPaths \ {x} : stOp'[y] = stOp[y] /\ stTemp'[y] = stTemp[y] /\ stFinal'[y] = stFinal[y]
  BY <1>0, <1>5 DEF StShaped
<1> QED BY <1>0, <1>p, <1>3, <1>4, <1>5, <1>6, <1>8, <1>9, <1>10, <1>11, <1>12, WriteKeeps

-----------------------------------------------------------------------------
(* Somebody else                                                           *)

\* An act of somebody else is counted and observed, so that nothing is claimed of the object.
LEMMA TouchKeeps ==
  ASSUME StInv, NEW x \in StPaths \ {Root}, NEW b \in {"none", "bad", "foreign"}, Touch(x, b)
  PROVE  StInv'
<1> USE DEF StInv
<1> DEFINE row == IF b = "none" THEN NoBytes ELSE [stFinal[x] EXCEPT !.bytes = b]
<1>0. /\ stLeft.touches > 0 /\ stFinal[x].bytes \in {"none", "good"} /\ (b = "foreign" <=> stFinal[x].bytes = "none")
      /\ stFinal' = [stFinal EXCEPT ![x] = row] /\ stTouched' = stTouched \cup {x}
      /\ stLeft' = [stLeft EXCEPT !.touches = @ - 1]
      /\ stPlan' = stPlan /\ stState' = stState /\ stOp' = stOp /\ stTemp' = stTemp /\ stRun' = stRun
  BY DEF Touch
<1>1. stFinal[x] \in FinalRow
  BY DEF StShaped
<1>2. row \in FinalRow /\ row.bytes = b
  BY <1>1 DEF FinalRow, NoBytes, Origins
<1> HIDE DEF row
<1>3. /\ stFinal' \in [StPaths -> FinalRow] /\ stFinal'[x].bytes = b
      /\ \A y \in StPaths \ {x} : stFinal'[y] = stFinal[y]
  BY <1>0, <1>2 DEF StShaped
<1>4. stLeft' \in LeftRow /\ stLeft'.touches <= StBounds.touches /\ stLeft'.touches < StBounds.touches /\ ~Undisturbed'
  BY <1>0, PathNames DEF StShaped, LeftRow, Undisturbed
<1>5. /\ StFiles' = StFiles /\ StPaths' = StPaths /\ OpRow' = OpRow /\ TempRow' = TempRow /\ FinalRow' = FinalRow
      /\ RunRow' = RunRow /\ ReceiptBytes' = ReceiptBytes
  BY <1>0, SamePlan DEF ReceiptBytes
<1>6. StShaped'
  BY <1>0, <1>3, <1>4, <1>5 DEF StShaped
<1>7. TriedInOrder'
  BY <1>0 DEF TriedInOrder
<1>8. PathsOK'
  <2>1. SUFFICES ASSUME NEW y \in StPaths PROVE PathOK(y)'
    BY <1>4, <1>5 DEF PathsOK
  <2>2. PathOK(y)
    BY DEF PathsOK
  <2>3. stFinal'[y] = stFinal[y] \/ (y # Root /\ stFinal'[y].bytes # "good")
    BY <1>3
  <2> QED BY <1>0, <1>5, <2>2, <2>3 DEF PathOK
<1>9. PlaceOK'
  <2>1. stRun.pc \in Created => stFinal'[X].bytes \in {"none", "foreign"}
    <3>1. stRun.pc \in Created => X \in StPaths /\ stFinal[X].bytes \in {"none", "foreign"}
      BY DEF PlaceOK, StShaped, RunRow, X
    <3> QED BY <1>0, <1>3, <3>1
  <2>2. StAt("certify") => stFinal'[X] = stFinal[X]
    BY <1>3, PathNames DEF PlaceOK
  <2>3. X' = X /\ Reading' = Reading
    BY <1>0, <1>5 DEF X, Reading
  <2> QED BY <1>0, <1>5, <2>1, <2>2, <2>3 DEF PlaceOK, StAt
<1>10. CompletionOK'
  <2>1. X' = X
    BY <1>0 DEF X
  <2>2. \A f \in StFiles : f \notin stTouched' => f \notin stTouched /\ stFinal'[f] = stFinal[f]
    BY <1>0, <1>3, PathNames
  <2> QED BY <1>0, <1>5, <2>1, <2>2 DEF CompletionOK, StAt
<1>11. ReceiptIsTrue'
  <2>1. \A f \in StFiles \ stTouched' : f \in StFiles \ stTouched /\ stFinal'[f] = stFinal[f]
    BY <1>0, <1>3, PathNames
  <2> QED BY <1>0, <1>5, <2>1 DEF ReceiptIsTrue
<1>12. CrashesDoNotFail'
  BY <1>4 DEF CrashesDoNotFail
<1> QED BY <1>4, <1>6, <1>7, <1>8, <1>9, <1>10, <1>11, <1>12

-----------------------------------------------------------------------------
(* The invariant holds                                                     *)

\* The first state satisfies it.
LEMMA StInitHolds ==
  ASSUME StInit
  PROVE  StInv
<1>1. /\ stPlan \in StPlans /\ stState = "approved" /\ stOp = [x \in StPaths |-> NoOp]
      /\ stTemp = [x \in StPaths |-> NoBytes] /\ stFinal = [x \in StPaths |-> NoBytes]
      /\ stRun = StDown /\ stTouched = {} /\ stLeft = StBounds
  BY DEF StInit
<1>2. NoOp \in OpRow /\ NoBytes \in TempRow /\ NoBytes \in FinalRow /\ StDown \in RunRow
  BY DEF NoOp, NoBytes, StDown, OpRow, TempRow, FinalRow, RunRow, Origins, Shas, StPcs, StPaths
<1>3. stLeft \in LeftRow /\ stLeft.touches <= StBounds.touches
  BY <1>1, SliceTransferBounds DEF LeftRow
<1>4. StShaped
  BY <1>1, <1>2, <1>3 DEF StShaped, StStates
<1>5. TriedInOrder
  <2>1. 0 \in 0..stPlan.sources /\ {} = 1..0
    BY <1>4, PathNames
  <2> QED BY <1>1, <2>1 DEF TriedInOrder, StDown
<1>6. PathsOK
  <2>1. SUFFICES ASSUME NEW x \in StPaths PROVE PathOK(x) /\ PathTold(x)
    BY DEF PathsOK
  <2>2. stOp[x].state = "none" /\ stTemp[x].bytes = "none" /\ stFinal[x].bytes = "none"
    BY <1>1 DEF NoOp, NoBytes
  <2> QED BY <2>2 DEF PathOK, PathTold, Proven
<1>7. stRun.pc = "down"
  BY <1>1 DEF StDown
<1>8. PlaceOK /\ CompletionOK /\ PlaceTold
  BY <1>7 DEF PlaceOK, CompletionOK, PlaceTold, StAt, Writing, Created, Publishing
<1>9. ReceiptTold
  BY <1>1, <1>4, PathNames DEF ReceiptTold, NoOp
<1>10. ReceiptIsTrue /\ CrashesDoNotFail
  BY <1>1 DEF ReceiptIsTrue, CrashesDoNotFail
<1> QED BY <1>4, <1>5, <1>6, <1>8, <1>9, <1>10 DEF StInv

\* A step that changes nothing keeps it.
LEMMA StutterKeeps ==
  ASSUME StInv, UNCHANGED stVars
  PROVE  StInv'
<1>1. /\ stPlan' = stPlan /\ stState' = stState /\ stOp' = stOp /\ stTemp' = stTemp /\ stFinal' = stFinal
      /\ stRun' = stRun /\ stTouched' = stTouched /\ stLeft' = stLeft
  BY DEF stVars
<1>2. /\ StFiles' = StFiles /\ X' = X /\ Reading' = Reading /\ ReceiptBytes' = ReceiptBytes
  BY <1>1, SamePlan DEF X, Reading, ReceiptBytes
<1>3. TriedInOrder' /\ PlaceOK' /\ CompletionOK' /\ (Undisturbed => PlaceTold')
  <2>1. TriedInOrder'
    BY <1>1 DEF StInv, TriedInOrder
  <2>2. PlaceOK'
    BY <1>1, <1>2 DEF StInv, PlaceOK, StAt
  <2>3. CompletionOK'
    BY <1>1, <1>2 DEF StInv, CompletionOK, StAt
  <2>4. Undisturbed => PlaceTold'
    BY <1>1, <1>2 DEF StInv, PlaceTold, StAt
  <2> QED BY <2>1, <2>2, <2>3, <2>4
<1>4. stState \in StStates /\ stRun \in RunRow /\ stLeft \in LeftRow
  BY DEF StInv, StShaped
<1> QED BY <1>1, <1>3, <1>4, StQuietKeeps

\* Every step keeps it.
LEMMA StStepKeeps ==
  ASSUME StInv, [StNext]_stVars
  PROVE  StInv'
<1>1. CASE StAct
  BY <1>1, StartKeeps, AuditKeeps, FirstIntentKeeps, MakeKeeps, CertifyKeeps, OwnRecordKeeps, ResumeKeeps,
     OpenSourceKeeps, NoSourceKeeps, ClearKeeps, DiscardOldKeeps, CreateTempKeeps, WriteChunkKeeps, PreparedKeeps,
     PublishKeeps, CompleteKeeps, DiscardTempKeeps, StepFileKeeps, VerifyKeeps, FinishKeeps DEF StAct
<1>2. CASE SourceFails \/ ReadFails \/ StCrash
  BY <1>2, SourceFailsKeeps, ReadFailsKeeps, CrashKeeps
<1>3. CASE \E x \in StPaths \ {Root}, b \in {"none", "bad", "foreign"} : Touch(x, b)
  BY <1>3, TouchKeeps
<1>4. CASE UNCHANGED stVars
  BY <1>4, StutterKeeps
<1> QED BY <1>1, <1>2, <1>3, <1>4 DEF StNext

\* The inductive invariant of a delivery: the session's place, the journal and the disk agree
\* after every crash, source failure and act of somebody else.
THEOREM TransferInvariant == StSpec => []StInv
<1>1. StInit => StInv
  BY StInitHolds
<1>2. StInv /\ [StNext]_stVars => StInv'
  BY StStepKeeps
<1> QED BY <1>1, <1>2, PTL DEF StSpec

\* The invariant contains what the run checks.
LEMMA InvTellsTruth ==
  ASSUME StInv
  PROVE  RecordsTrue
<1> USE DEF StInv
<1>1. StTypeOK
  <2>1. ASSUME NEW x \in StPaths
        PROVE  /\ stOp[x].state \in {"none", "intent", "prepared", "complete"}
               /\ stOp[x].src \in StSources \cup {OwnBytes}
               /\ stTemp[x].bytes \in {"none", "part", "good"}
               /\ stFinal[x].bytes \in {"none", "bare", "good", "bad", "foreign"}
               /\ stTemp[x].bytes # "none" => stOp[x].state # "none"
    <3>1. stOp[x] \in OpRow /\ stTemp[x] \in TempRow /\ stFinal[x] \in FinalRow
      BY DEF StShaped
    <3> QED BY <3>1 DEF OpRow, TempRow, FinalRow, Origins, PathsOK, PathOK
  <2>2. stRun.cur \in StPaths /\ stRun.tried \subseteq StSources /\ stState \in StStates
    BY DEF StShaped, RunRow
  <2> QED BY <2>1, <2>2 DEF StTypeOK, StStates, PlaceOK
<1>2. BytesAttributed
  BY PathNames DEF BytesAttributed, PathsOK, PathOK, Proven
<1> QED BY <1>1, <1>2 DEF RecordsTrue

\* The receipt of a completed delivery is true, a record attributes its bytes to the source
\* they were read from, and a crash alone makes no delivery fail (transaction.py: Session).
THEOREM RecordsStayTrue == StSpec => []RecordsTrue
<1>1. StInv => RecordsTrue
  BY InvTellsTruth
<1> QED BY <1>1, TransferInvariant, PTL

-----------------------------------------------------------------------------
(* What stands at a final path stays                                       *)

\* A step changes an object only where none was, where a directory awaits its mark, or by the
\* hand of somebody else.
LEMMA StepAppears ==
  ASSUME StInv, [StNext]_stVars, NEW x \in StPaths, stFinal'[x] # stFinal[x]
  PROVE  stFinal[x].bytes \in {"none", "bare"} \/ stLeft'.touches < stLeft.touches
<1> USE DEF StInv
<1>1. CASE MakeDirectory
  <2>1. PathOK(Root) /\ Root \in StPaths /\ stOp[Root] \in OpRow
    BY PathNames DEF PathsOK, StShaped
  <2>2. CASE Refusal("failed")
    BY <2>2 DEF Refusal
  <2>3. CASE OnlyRun
    BY <2>3 DEF OnlyRun
  <2>4. CASE /\ X = Root /\ stOp[Root].state # "none" /\ ~Alien(Root)
             /\ ~(OwnedFinal(Root) /\ stOp[Root].state \in {"complete", "intent"})
             /\ stFinal' = [stFinal EXCEPT ![Root].bytes = MadeDirectory]
    <3>1. x = Root
      BY <2>4 DEF StShaped
    <3>2. stOp[Root].state \in {"complete", "intent"}
      BY <2>1, <2>4 DEF PathOK, OpRow
    <3> QED BY <2>1, <2>4, <3>1, <3>2 DEF PathOK, OwnedFinal
  <2> QED BY <1>1, <2>2, <2>3, <2>4 DEF MakeDirectory
<1>2. CASE CertifyDirectory
  <2>1. X = Root /\ stFinal[Root].bytes = "bare" /\ stFinal' = [stFinal EXCEPT ![Root].bytes = "good"]
    BY <1>2 DEF CertifyDirectory, PlaceOK, StAt
  <2>2. x = Root
    BY <2>1 DEF StShaped
  <2> QED BY <2>1, <2>2
<1>3. CASE PublishObject
  <2>1. CASE stFinal[X].bytes = "none" /\ stFinal' = [stFinal EXCEPT ![X] = stTemp[X]]
    <3>1. x = X
      BY <2>1 DEF StShaped
    <3> QED BY <2>1, <3>1
  <2> QED BY <1>3, <2>1 DEF PublishObject, OnlyRun, Refusal
<1>4. CASE \E y \in StPaths \ {Root}, b \in {"none", "bad", "foreign"} : Touch(y, b)
  <2>1. stLeft' = [stLeft EXCEPT !.touches = @ - 1] /\ stLeft.touches > 0 /\ stLeft \in LeftRow
    BY <1>4 DEF Touch, StShaped
  <2> QED BY <2>1 DEF LeftRow
<1>5. CASE UNCHANGED stVars
  BY <1>5 DEF stVars
<1>6. CASE \/ StartSession \/ AuditStart \/ FirstIntent \/ OwnRecord \/ ResumeOrRead \/ OpenSource \/ NoSource
           \/ ClearProof \/ DiscardOld \/ CreateTemp \/ WriteChunk \/ RecordPrepared
           \/ RecordComplete \/ DiscardTemp \/ VerifyAll \/ FinishDelivery
           \/ SourceFails \/ ReadFails \/ StCrash
  BY <1>6 DEF StartSession, AuditStart, FirstIntent, OwnRecord, ResumeOrRead, OpenSource, NoSource, ClearProof,
              DiscardOld, CreateTemp, WriteChunk, RecordPrepared, RecordComplete, DiscardTemp, VerifyAll,
              FinishDelivery, SourceFails, ReadFails, StCrash, OnlyRun, Refusal
<1>7. CASE Step
  BY <1>7 DEF Step, OnlyRun, Refusal
<1> QED BY <1>1, <1>2, <1>3, <1>4, <1>5, <1>6, <1>7 DEF StNext, StAct

\* The program never changes, replaces or removes an object at a final path
\* (destination.link_fd, rename_noreplace).
THEOREM FinalsStay == StSpec => FinalsOnlyAppear
<1>1. StInv /\ [StNext]_stVars =>
        [\A x \in StPaths : stFinal'[x] # stFinal[x] =>
           stFinal[x].bytes \in {"none", "bare"} \/ stLeft'.touches < stLeft.touches]_stVars
  BY StepAppears
<1> QED BY <1>1, TransferInvariant, PTL DEF StSpec, FinalsOnlyAppear
=============================================================================
