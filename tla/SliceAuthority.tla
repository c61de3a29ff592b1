--------------------------- MODULE SliceAuthority ---------------------------
(***************************************************************************)
(* Who may deliver a slice: the durable rows of slice.state.Store (one     *)
(* transaction per approved plan, one owner per destination), the kernel   *)
(* lease of slice.authority.Lease, and the processes that Start a          *)
(* transaction, are asked to Stop, are interrupted or die.                 *)
(*                                                                         *)
(* Each step is one SQLite transaction or one kernel operation.  The rows  *)
(* outlive processes, the lease does not.  The only transaction seen half  *)
(* done is completion, which releases the lease before it commits; all     *)
(* other writers wait for it (BEGIN IMMEDIATE).  An attempt token is a new *)
(* uuid for each Start: the process stands for it, for a Start that ended  *)
(* never uses its token again.                                             *)
(***************************************************************************)
EXTENDS Integers, FiniteSets

CONSTANTS
  SaProcs,      \* processes
  SaWorlds,     \* the transactions there are: device, one-shot (FAT) or not, overlaps;
                \* and bounds: Starts, Stop requests, crashes
  SaHead        \* records of a complete journal, the last one the receipt

\* "none" is nobody: no process, no transaction.
ASSUME SliceAuthorityNames ==
  /\ "none" \notin SaProcs /\ SaHead \in Nat \ {0}
  /\ \A w \in SaWorlds : /\ "none" \notin DOMAIN w.device
                        /\ w.device \in [DOMAIN w.device -> {w.device[t] : t \in DOMAIN w.device}]
                        /\ w.left \in [starts : Nat, stops : Nat, crashes : Nat]

VARIABLES
  saWorld,
  saTx,     \* rows of transactions
  saOwner,  \* rows of owners, by device
  saLease,  \* the process that holds the device socket, or "none"
  saProc,   \* where each process is, and its reservation
  saHist,   \* observer: the latest Stop of each transaction, and deliveries begun
  saLeft

saVars == <<saWorld, saTx, saOwner, saLease, saProc, saHist, saLeft>>

SaTxs == DOMAIN saWorld.device
SaDevice(t) == saWorld.device[t]
SessionOnly(t) == t \in saWorld.fat

\* _claims_overlap: same device, or one output directory under the other.
ClaimsOverlap(t, u) == SaDevice(t) = SaDevice(u) \/ {t, u} \in saWorld.overlap

\* "waiting" stands for waiting_source, blocked_source and waiting_destination, "failed"
\* for failed and invalidated: no rule of this component tells them apart.
SaRunning == {"starting", "transferring", "verifying", "stopped", "waiting"}
SaResumable == SaRunning \cup {"approved"}
SaTerminal == {"complete", "failed"}

SaNoOwner == [tx |-> "none", attempt |-> "none"]
SaIdle == [pc |-> "idle", tx |-> "none", res |-> <<>>, pre |-> FALSE, fresh |-> FALSE, head |-> 0]
Holding == {"preflight", "claim", "check", "activate", "run", "closing"}
\* A delivery that has its attempt published and its session open.
Delivering == {"check", "activate", "run", "closing"}

SaInit ==
  /\ saWorld \in SaWorlds
  /\ saTx = [t \in SaTxs |-> [state |-> "ready", stop |-> FALSE, serial |-> 0, ack |-> 0,
                              consumed |-> FALSE, head |-> 0]]
  /\ saOwner = [d \in {SaDevice(t) : t \in SaTxs} |-> SaNoOwner]
  /\ saLease = [d \in {SaDevice(t) : t \in SaTxs} |-> "none"]
  /\ saProc = [p \in SaProcs |-> SaIdle]
  /\ saHist = [t \in SaTxs |-> [stop |-> "none", runs |-> 0]]
  /\ saLeft = saWorld.left

SaTypeOK ==
  /\ \A t \in SaTxs :
       /\ saTx[t].state \in SaResumable \cup SaTerminal \cup {"ready"}
       /\ saTx[t].stop \in BOOLEAN /\ saTx[t].consumed \in BOOLEAN
       /\ saTx[t].ack \in 0..saTx[t].serial /\ saTx[t].head \in 0..SaHead
       /\ saHist[t].stop \in {"none", "asked", "acked"} /\ saHist[t].runs \in Nat
  /\ \A d \in DOMAIN saOwner :
       saOwner[d].tx \in SaTxs \cup {"none"} /\ saOwner[d].attempt \in SaProcs \cup {"none"}
  /\ \A p \in SaProcs :
       /\ saProc[p].pc \in {"idle", "insert", "acquire", "commit", "interrupted", "again"} \cup Holding
       \* what a process holds is what its program counter says
       /\ saProc[p].pc \in Holding <=> \E d \in DOMAIN saLease : saLease[d] = p

-----------------------------------------------------------------------------
(* Helpers                                                                 *)

T(p) == saProc[p].tx
D(p) == SaDevice(T(p))

\* No writer holds the database.
Writable == \A p \in SaProcs : saProc[p].pc # "commit"

SaGo(p, pc) == saProc' = [saProc EXCEPT ![p].pc = pc]
SaEnd(p) == saProc' = [saProc EXCEPT ![p] = SaIdle]
Release(p) == saLease' = [saLease EXCEPT ![D(p)] = "none"]

\* A row that becomes stopped acknowledges every Stop asked so far.
Acknowledged(row) == [row EXCEPT !.state = "stopped", !.ack = row.serial]
HistAck(t) == [saHist EXCEPT ![t].stop = IF @ = "asked" THEN "acked" ELSE @]
Asked(row) == [row EXCEPT !.stop = TRUE, !.serial = @ + 1]

\* Mutant: the reservation takes over whatever was acknowledged meanwhile.
Resumes_Upgraded(p) == saTx[T(p)].state = "stopped" /\ saTx[T(p)].serial = saTx[T(p)].ack

\* Reservation.resumes: only a Start issued after this exact acknowledgement.
Resumes(p) ==
  LET row == saTx[T(p)]  res == saProc[p].res
  IN /\ res.state = "stopped" /\ row.state = "stopped"
     /\ \A n \in {res.ack, row.serial, row.ack} : res.serial = n

\* _require_attempt.
Current(p) == saOwner[D(p)] = [tx |-> T(p), attempt |-> p] /\ saTx[T(p)].state \in SaRunning

-----------------------------------------------------------------------------
(* The operator: approve, stop.                                            *)

SaApprove(t) ==
  /\ Writable /\ saTx[t].state = "ready"
  /\ saTx' = [saTx EXCEPT ![t].state = "approved"]
  /\ UNCHANGED <<saWorld, saOwner, saLease, saProc, saHist, saLeft>>

\* request_stop, from any process (an interrupt of a running session asks in the same way).
\* No Start issued so far has seen it acknowledged.
RequestStop(t) ==
  /\ Writable /\ saLeft.stops > 0
  /\ saTx' = [saTx EXCEPT ![t] = Asked(@)]
  /\ saProc' = [p \in SaProcs |-> IF T(p) = t THEN [saProc[p] EXCEPT !.fresh = FALSE] ELSE saProc[p]]
  /\ saHist' = [saHist EXCEPT ![t].stop = "asked"]
  /\ saLeft' = [saLeft EXCEPT !.stops = @ - 1]
  /\ UNCHANGED <<saWorld, saOwner, saLease>>

-----------------------------------------------------------------------------
(* Start, up to the claim of an attempt.                                   *)

\* The checks of reserve, made on a snapshot and again in the writing transaction.
Reservable(t) ==
  /\ saTx[t].state \in SaResumable
  /\ \A d \in DOMAIN saOwner :
       saOwner[d].tx \notin {"none", t} => ~ClaimsOverlap(t, saOwner[d].tx)

\* start and reserve, on a snapshot.  An owned transaction needs no write.  Only a native
\* delivery without events inspects its sources before it claims.
StartReserve(p, t) ==
  /\ \/ saProc[p].pc = "idle" /\ saLeft.starts > 0 /\ saLeft' = [saLeft EXCEPT !.starts = @ - 1]
     \/ saProc[p].pc = "again" /\ T(p) = t /\ UNCHANGED saLeft
  /\ SessionOnly(t) => ~saTx[t].consumed
  /\ IF Reservable(t)
     THEN saProc' = [saProc EXCEPT ![p] =
            [pc |-> IF saOwner[SaDevice(t)].tx = t THEN "acquire" ELSE "insert", tx |-> t,
             res |-> [state |-> saTx[t].state, serial |-> saTx[t].serial, ack |-> saTx[t].ack],
             pre |-> saTx[t].head = 0, fresh |-> saHist[t].stop # "asked", head |-> 0]]
     ELSE saProc[p].pc = "again" /\ SaEnd(p)
  /\ UNCHANGED <<saWorld, saTx, saOwner, saLease, saHist>>

\* Mutant: only the state is read again, not the other claims.
Insert_Blind(p) ==
  /\ saProc[p].pc = "insert" /\ Writable /\ saTx[T(p)].state \in SaResumable
  /\ saOwner' = [saOwner EXCEPT ![D(p)] = [tx |-> T(p), attempt |-> "none"]]
  /\ saTx' = [saTx EXCEPT ![T(p)].state = "starting"]
  /\ SaGo(p, "acquire")
  /\ UNCHANGED <<saWorld, saLease, saHist, saLeft>>

\* reserve, in the writing transaction.  The reservation stays the one read before.
Insert(p) ==
  /\ saProc[p].pc = "insert" /\ Writable
  /\ IF ~Reservable(T(p)) THEN SaEnd(p) /\ UNCHANGED <<saOwner, saTx>>
     ELSE /\ SaGo(p, "acquire")
          /\ IF saOwner[D(p)].tx = T(p) THEN UNCHANGED <<saOwner, saTx>>
             ELSE /\ saOwner' = [saOwner EXCEPT ![D(p)] = [tx |-> T(p), attempt |-> "none"]]
                  /\ saTx' = [saTx EXCEPT ![T(p)].state = "starting"]
  /\ UNCHANGED <<saWorld, saLease, saHist, saLeft>>

\* Lease: the device socket, then the marker.  A completed transaction needs neither.
AcquireLease(p) ==
  /\ saProc[p].pc = "acquire"
  /\ IF saLease[D(p)] = "none" /\ saTx[T(p)].state # "complete"
     THEN saLease' = [saLease EXCEPT ![D(p)] = p] /\ SaGo(p, "preflight")
     ELSE SaEnd(p) /\ UNCHANGED saLease
  /\ UNCHANGED <<saWorld, saTx, saOwner, saHist, saLeft>>

\* guard_preclaim, around the inspection of the sources.
Preclaim(p) ==
  /\ saOwner[D(p)].tx = T(p) /\ (saTx[T(p)].stop => Resumes(p)) /\ saTx[T(p)].state \in SaResumable

Preflight(p) ==
  /\ saProc[p].pc = "preflight" /\ (saProc[p].pre => Preclaim(p))
  /\ SaGo(p, "claim")
  /\ UNCHANGED <<saWorld, saTx, saOwner, saLease, saHist, saLeft>>

\* refuse_preclaim: a source is absent or wrong, or a Stop came.  A pending Stop wins; the
\* one this Start may consume is cleared.
RefusePreclaim(p, outcome) ==
  /\ saProc[p].pc = "preflight" /\ saProc[p].pre /\ Writable
  /\ LET row == saTx[T(p)]  pending == row.stop /\ ~Resumes(p)
     IN IF row.state \notin SaResumable \/ saOwner[D(p)].tx # T(p) THEN UNCHANGED <<saTx, saHist>>
        ELSE IF pending
        THEN saTx' = [saTx EXCEPT ![T(p)] = Acknowledged(row)] /\ saHist' = HistAck(T(p))
        ELSE /\ saTx' = [saTx EXCEPT ![T(p)] = [row EXCEPT !.state = outcome, !.stop = FALSE]]
             /\ saHist' = [saHist EXCEPT ![T(p)].stop = IF saProc[p].fresh THEN "none" ELSE @]
  /\ Release(p) /\ SaEnd(p)
  /\ UNCHANGED <<saWorld, saOwner, saLeft>>

\* An interrupt asks for a Stop, unless one this Start may not consume is there, and
\* acknowledges it at once.
InterruptPreclaim(p) ==
  /\ saProc[p].pc = "preflight" /\ saProc[p].pre /\ Writable /\ saLeft.stops > 0
  /\ saTx[T(p)].state \in SaResumable
  /\ LET row == saTx[T(p)]  reused == row.stop /\ ~Resumes(p)
     IN /\ saTx' = [saTx EXCEPT ![T(p)] = Acknowledged(IF reused THEN row ELSE Asked(row))]
        /\ saHist' = IF reused THEN HistAck(T(p)) ELSE [saHist EXCEPT ![T(p)].stop = "acked"]
        /\ saProc' = [q \in SaProcs |->
             IF q = p THEN SaIdle
             ELSE [saProc[q] EXCEPT !.fresh = @ /\ (T(q) # T(p) \/ reused)]]
  /\ Release(p) /\ saLeft' = [saLeft EXCEPT !.stops = @ - 1]
  /\ UNCHANGED <<saWorld, saOwner>>

\* The intent has spent its only attempt.
Spent(p) == SessionOnly(T(p)) /\ saTx[T(p)].consumed

\* claim, refused: the row is no longer resumable, or the attempt is spent.
ClaimRefused(p) ==
  /\ saProc[p].pc = "claim" /\ Writable
  /\ saTx[T(p)].state \notin SaResumable \/ saOwner[D(p)].tx # T(p) \/ Spent(p)
  /\ Release(p) /\ SaEnd(p)
  /\ UNCHANGED <<saWorld, saTx, saOwner, saHist, saLeft>>

\* claim: the attempt is published, then a Stop that is not this Start's to consume ends it.
Claim(p) ==
  /\ saProc[p].pc = "claim" /\ Writable
  /\ saTx[T(p)].state \in SaResumable /\ saOwner[D(p)].tx = T(p) /\ ~Spent(p)
  /\ saOwner' = [saOwner EXCEPT ![D(p)].attempt = p]
  /\ LET row == saTx[T(p)]
     IN IF row.stop /\ ~Resumes(p)
        THEN /\ saTx' = [saTx EXCEPT ![T(p)] = Acknowledged(row)] /\ saHist' = HistAck(T(p))
             /\ Release(p) /\ SaEnd(p)
        ELSE /\ saTx' = [saTx EXCEPT ![T(p)] = [row EXCEPT !.state = "starting", !.stop = FALSE,
                                                          !.consumed = SessionOnly(T(p))]]
             /\ saHist' = [saHist EXCEPT ![T(p)].runs = IF @ < 2 THEN @ + 1 ELSE @,
                                         ![T(p)].stop = IF saProc[p].fresh THEN "none" ELSE @]
             /\ saProc' = [saProc EXCEPT ![p].pc = "check", ![p].head = row.head]
             /\ UNCHANGED saLease
  /\ UNCHANGED <<saWorld, saLeft>>

-----------------------------------------------------------------------------
(* The delivery: transaction.start after the claim, Session.step, close.   *)

\* Store.transition: a Stop overrides every outcome but failure.
Outcome(p, state) ==
  LET row == saTx[T(p)]
      to == IF row.stop /\ state # "failed" THEN "stopped" ELSE state
  IN /\ Writable /\ Current(p)
     /\ saTx' = [saTx EXCEPT ![T(p)] = IF to = "stopped" THEN Acknowledged(row) ELSE [row EXCEPT !.state = to]]
     /\ saHist' = IF to = "stopped" THEN HistAck(T(p)) ELSE saHist

\* The checks of the destination, then activate, the audit and the control record.
CheckDestination(p) ==
  /\ saProc[p].pc = "check" /\ SaGo(p, "activate")
  /\ UNCHANGED <<saWorld, saTx, saOwner, saLease, saHist, saLeft>>

Activate(p) ==
  /\ saProc[p].pc = "activate" /\ Outcome(p, "transferring")
  /\ IF saTx[T(p)].stop THEN Release(p) /\ SaEnd(p) ELSE SaGo(p, "run") /\ UNCHANGED saLease
  /\ UNCHANGED <<saWorld, saOwner, saLeft>>

\* authority.refuse, or the handler of _step for a refusal that ends the attempt: the
\* outcome is recorded, then the lease closed.
RefuseDelivery(p, outcome) ==
  /\ saProc[p].pc \in {"check", "activate", "run"} /\ Outcome(p, outcome)
  /\ Release(p) /\ SaEnd(p)
  /\ UNCHANGED <<saWorld, saOwner, saLeft>>

\* Mutant: a Stop is looked at between files only.
StopDelivery_Between(p) ==
  /\ saProc[p].pc = "run" /\ saTx[T(p)].stop /\ saTx[T(p)].state = "transferring" /\ Outcome(p, "stopped")
  /\ Release(p) /\ SaEnd(p)
  /\ UNCHANGED <<saWorld, saOwner, saLeft>>

\* A boundary sees the Stop; _step acknowledges it and closes the lease.
StopDelivery(p) ==
  /\ saProc[p].pc = "run" /\ saTx[T(p)].stop /\ Outcome(p, "stopped")
  /\ Release(p) /\ SaEnd(p)
  /\ UNCHANGED <<saWorld, saOwner, saLeft>>

\* An attended wait: recorded by _step, and run returns to a caller that closes the session.
WaitDelivery(p) ==
  /\ saProc[p].pc = "run" /\ Outcome(p, "waiting")
  /\ IF saTx[T(p)].stop THEN Release(p) /\ SaEnd(p) ELSE SaGo(p, "closing") /\ UNCHANGED saLease
  /\ UNCHANGED <<saWorld, saOwner, saLeft>>

\* Store.append: an operation record, or the receipt.
AppendRecord(p) ==
  /\ saProc[p].pc = "run" /\ Writable /\ Current(p) /\ ~saTx[T(p)].stop
  /\ saTx[T(p)].state \in {"transferring", "verifying"} /\ saProc[p].head = saTx[T(p)].head
  /\ saTx[T(p)].head < IF saTx[T(p)].state = "transferring" THEN SaHead - 1 ELSE SaHead
  /\ saTx' = [saTx EXCEPT ![T(p)].head = @ + 1]
  /\ saProc' = [saProc EXCEPT ![p].head = @ + 1]
  /\ UNCHANGED <<saWorld, saOwner, saLease, saHist, saLeft>>

\* _finish: all files are complete.
Verifying(p) ==
  /\ saProc[p].pc = "run" /\ saTx[T(p)].head >= SaHead - 1
  /\ saTx[T(p)].state = "transferring" /\ Outcome(p, "verifying")
  /\ IF saTx[T(p)].stop THEN Release(p) /\ SaEnd(p) ELSE UNCHANGED <<saLease, saProc>>
  /\ UNCHANGED <<saWorld, saOwner, saLeft>>

\* complete, inside its transaction: the lease is released before the commit.
CompleteRelease(p) ==
  /\ saProc[p].pc = "run" /\ Writable /\ Current(p) /\ ~saTx[T(p)].stop
  /\ saTx[T(p)].state = "verifying" /\ saTx[T(p)].head = SaHead
  /\ Release(p) /\ SaGo(p, "commit")
  /\ UNCHANGED <<saWorld, saTx, saOwner, saHist, saLeft>>

CompleteCommit(p) ==
  /\ saProc[p].pc = "commit"
  /\ saTx' = [saTx EXCEPT ![T(p)].state = "complete"]
  /\ saOwner' = [saOwner EXCEPT ![D(p)] = SaNoOwner]
  /\ SaEnd(p)
  /\ UNCHANGED <<saWorld, saLease, saHist, saLeft>>

\* An exception that is no refusal leaves run to the session's close.
Unexpected(p) ==
  /\ saProc[p].pc = "run" /\ SaGo(p, "closing")
  /\ UNCHANGED <<saWorld, saTx, saOwner, saLease, saHist, saLeft>>

\* DeliveryAuthority.close: a running row becomes stopped, a waiting one stays.
CloseDelivery(p) ==
  /\ saProc[p].pc = "closing"
  /\ IF saTx[T(p)].state \in {"starting", "transferring", "verifying"}
     THEN Outcome(p, "stopped") ELSE UNCHANGED <<saTx, saHist>>
  /\ Release(p) /\ SaEnd(p)
  /\ UNCHANGED <<saWorld, saOwner, saLeft>>

\* An interrupted native Start closes its lease; its operator then asks for a Stop and
\* Starts afresh, only to have it acknowledged (_acknowledge_interrupt).
InterruptStart(p) ==
  /\ saProc[p].pc \in {"insert", "acquire", "check", "activate"} /\ ~SessionOnly(T(p)) /\ saLeft.stops > 0
  /\ IF saProc[p].pc \in Holding THEN Release(p) ELSE UNCHANGED saLease
  /\ SaGo(p, "interrupted") /\ saLeft' = [saLeft EXCEPT !.stops = @ - 1]
  /\ UNCHANGED <<saWorld, saTx, saOwner, saHist>>

AskAfterInterrupt(p) ==
  /\ saProc[p].pc = "interrupted" /\ Writable
  /\ saTx' = [saTx EXCEPT ![T(p)] = Asked(@)]
  /\ saHist' = [saHist EXCEPT ![T(p)].stop = "asked"]
  /\ saProc' = [q \in SaProcs |-> IF q = p THEN [saProc[p] EXCEPT !.pc = "again", !.fresh = FALSE]
                                 ELSE IF T(q) = T(p) THEN [saProc[q] EXCEPT !.fresh = FALSE] ELSE saProc[q]]
  /\ UNCHANGED <<saWorld, saOwner, saLease, saLeft>>

\* The process dies, or gives up because the database is busy (STATE_BUSY): the kernel
\* releases its sockets, SQLite rolls its transaction back, the rows stay.
SaCrash(p) ==
  /\ saProc[p].pc # "idle" /\ saLeft.crashes > 0
  /\ IF saProc[p].pc \in Holding THEN Release(p) ELSE UNCHANGED saLease
  /\ SaEnd(p) /\ saLeft' = [saLeft EXCEPT !.crashes = @ - 1]
  /\ UNCHANGED <<saWorld, saTx, saOwner, saHist>>

-----------------------------------------------------------------------------
SaAgain(p) == saProc[p].pc = "again" /\ StartReserve(p, T(p))
SaTooLate(p) == saProc[p].pc = "preflight" /\ ~Preclaim(p) /\ RefusePreclaim(p, "failed")
SaAct(p) ==
  \/ SaAgain(p) \/ SaTooLate(p)
  \/ Insert(p) \/ AcquireLease(p) \/ Preflight(p)
  \/ ClaimRefused(p) \/ Claim(p) \/ CheckDestination(p) \/ Activate(p) \/ StopDelivery(p)
  \/ AppendRecord(p) \/ Verifying(p) \/ CompleteRelease(p) \/ CompleteCommit(p)
  \/ CloseDelivery(p) \/ AskAfterInterrupt(p)

SaNext ==
  \/ \E t \in SaTxs : SaApprove(t) \/ RequestStop(t)
  \/ \E p \in SaProcs :
       \/ \E t \in SaTxs : StartReserve(p, t)
       \/ SaAct(p) \/ Unexpected(p) \/ InterruptPreclaim(p) \/ InterruptStart(p) \/ SaCrash(p)
       \/ \E o \in {"waiting", "failed"} : RefusePreclaim(p, o) \/ RefuseDelivery(p, o)
       \/ WaitDelivery(p)

SaSpec == SaInit /\ [][SaNext]_saVars

\* The program goes on; what it waits for or is asked for is not promised.
FairSaSpec == SaSpec /\ \A p \in SaProcs : WF_saVars(SaAct(p))

-----------------------------------------------------------------------------
(* Properties                                                              *)

\* Two deliveries never write at once to one destination or to one inside the other, and
\* each has the published attempt and the head of the journal it appends to
\* (state.reserve, "recheck inside it to close the CAS race"; authority.Lease).
OneDelivery ==
  \A p \in SaProcs : saProc[p].pc \in Delivering =>
    /\ Current(p) /\ saProc[p].head = saTx[T(p)].head
    /\ \A q \in SaProcs \ {p} : saProc[q].pc \in Delivering => ~ClaimsOverlap(T(p), T(q))

\* A FAT intent begins at most one delivery in its life, whatever dies (state.claim).
FatSpentOnce == \A t \in SaTxs : SessionOnly(t) => saHist[t].runs <= 1

\* Deliveries exclude each other, and one that cannot be repeated is not.
DeliveriesExclusive == SaTypeOK /\ OneDelivery /\ FatSpentOnce

\* After a Stop nothing is journalled and nothing completes until a Start that was issued
\* after the acknowledgement of that very Stop has taken over (Reservation.resumes).
StopWins ==
  [][\A t \in SaTxs : \/ saTx'[t].head # saTx[t].head
                      \/ saTx[t].state # "complete" /\ saTx'[t].state = "complete"
                      => saHist[t].stop = "none"]_saVars

\* complete and failed (or invalidated) are for ever, whatever a Start that was on its way does
\* (refuse_preclaim, claim and _require_attempt read the state again).
TerminalIsFinal ==
  [][\A t \in SaTxs : saTx[t].state \in SaTerminal => saTx'[t].state = saTx[t].state]_saVars

\* A delivery that was asked to stop and ends by itself leaves the Stop acknowledged or the
\* transaction settled; a later Start need not guess (Session._step, DeliveryAuthority.refuse).
StopIsAnswered ==
  [][\A p \in SaProcs :
       /\ saProc[p].pc \in {"check", "activate", "run"} /\ saHist[T(p)].stop = "asked"
       /\ saProc'[p].pc = "idle" /\ saLeft' = saLeft
       => saHist'[T(p)].stop = "acked" \/ saTx'[T(p)].state \in SaTerminal]_saVars

\* A Stop wins over every Start that was issued before it, is answered, and what is settled
\* stays settled.
StopsHold == StopWins /\ TerminalIsFinal /\ StopIsAnswered

\* Every Start ends, with or without a Stop: neither the lease nor the writing transaction
\* of another process keeps it (transaction.start, Session.run).
StartSettles == \A p \in SaProcs : saProc[p].pc # "idle" ~> saProc[p].pc = "idle"
=============================================================================
