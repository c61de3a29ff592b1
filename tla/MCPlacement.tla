---------------------------- MODULE MCPlacement ----------------------------
(* The worlds Placement is checked in: fleets, selections, policies.       *)
EXTENDS Capacity
PlFile(size, fmt, float, sha) == [size |-> size, fmt |-> fmt, float |-> float, sha |-> sha]
PlDisk(replica, raid, cap, ids) ==
  [replica |-> replica, raid |-> raid, cap |-> cap, floor |-> 2, ids |-> ids,
   proven |-> TRUE, dedicated |-> TRUE, known |-> TRUE]
PlUp(free) == [life |-> "active", elig |-> "enabled", mounted |-> TRUE, free |-> free, clean |-> TRUE, anchor |-> free]
PlAway(free) == [PlUp(free) EXCEPT !.mounted = FALSE]
PlLost(free) == [PlAway(free) EXCEPT !.clean = FALSE]
PlRow(stored, orig, sha, annex) == [stored |-> stored, orig |-> orig, sha |-> sha, annex |-> annex, comp |-> FALSE]
PlNoRows == [k \in {} |-> NoRow]
PlOnly(k, row) == [x \in {k} |-> row]
PlFleet(drives, init, repos, rows) ==
  [drives |-> drives, init |-> init, repos |-> repos, rows |-> rows, mode |-> "guaranteed",
   pickle |-> FALSE, ram |-> 12, stream |-> TRUE, bulk |-> 13,
   feas |-> 40, opt |-> 60, contended |-> {{}}]
PlRepo(copies, files) == [copies |-> copies, files |-> files]
Float10 == PlFile(10, "safetensors", TRUE, "A")

\* Two primaries and a replica; a begun download, a protected repository, a tight packing.
Packing == PlFleet(<<PlDisk(FALSE, FALSE, 34, <<1, 0, 0>>), PlDisk(FALSE, TRUE, 30, <<2, 0, 0>>), PlDisk(TRUE, FALSE, 40, <<3, 0, 0>>)>>,
  <<PlUp(34), PlUp(30), PlUp(40)>>,
  <<PlRepo(1, <<Float10, PlFile(2, "aux", FALSE, "none")>>), PlRepo(2, <<PlFile(8, "gguf", FALSE, "none")>>),
    PlRepo(1, <<PlFile(14, "gguf", FALSE, "B")>>)>>, PlOnly(<<1, 2, 1>>, PlRow(2, 2, "A", "A")))
\* A home already whole on a drive that shares hardware with one of two replicas; contention.
Domains == [PlFleet(<<PlDisk(FALSE, FALSE, 30, <<1, 0, 9>>), PlDisk(TRUE, FALSE, 30, <<2, 0, 9>>), PlDisk(TRUE, FALSE, 30, <<3, 0, 0>>)>>,
  <<PlUp(30), PlUp(30), PlAway(24)>>,
  <<PlRepo(2, <<Float10>>), PlRepo(2, <<PlFile(3, "gguf", FALSE, "none")>>)>>, PlOnly(<<1, 1, 1>>, PlRow(8, 10, "A", "none")))
  EXCEPT !.contended = {{}, {2}, {3}}]
\* A drive nobody has read since its last write; an unproven row; the estimate as the measure.
Unknowns == [PlFleet(<<PlDisk(FALSE, FALSE, 16, <<1, 0, 0>>), PlDisk(FALSE, FALSE, 40, <<2, 0, 0>>), PlDisk(TRUE, FALSE, 40, <<3, 0, 0>>)>>,
  <<PlUp(16), PlLost(40), PlLost(40)>>,
  <<PlRepo(1, <<Float10, PlFile(6, "safetensors", FALSE, "B")>>), PlRepo(1, <<PlFile(5, "gguf", FALSE, "A")>>)>>,
  PlOnly(<<2, 1, 1>>, PlRow(5, 5, "B", "B"))) EXCEPT !.mode = "aware", !.ram = 4]
\* Searches that run out of states, and a repository of pickles only.
Bounded == [Packing EXCEPT !.feas = 3, !.contended = {{}, {1}}]
Truncating == [Packing EXCEPT !.opt = 3, !.repos = Append(@, PlRepo(1, <<PlFile(1, "pytorch", FALSE, "A")>>))]

\* A drive whose size nobody knows; one that is not, when mounted, what its anchor says.
Sizeless == PlFleet(<<[PlDisk(FALSE, FALSE, 16, <<1, 0, 0>>) EXCEPT !.proven = FALSE], [PlDisk(FALSE, FALSE, 30, <<2, 0, 0>>) EXCEPT !.known = FALSE]>>,
  <<PlAway(16), PlAway(8)>>, <<PlRepo(1, <<PlFile(8, "gguf", FALSE, "A")>>), PlRepo(1, <<PlFile(9, "gguf", FALSE, "A")>>)>>, PlNoRows)
Replaced == [Sizeless EXCEPT !.repos = <<PlRepo(1, <<PlFile(8, "pytorch", FALSE, "none"), PlFile(2, "aux", FALSE, "A")>>)>>, !.pickle = TRUE]

\* Two large files that pack by estimate; a row of other bytes on the drive a file would go to.
Tight(free) == [PlFleet(<<PlDisk(FALSE, FALSE, 40, <<1, 0, 0>>), PlDisk(FALSE, FALSE, 10, <<2, 0, 0>>)>>, <<PlUp(free), PlUp(10)>>,
  <<PlRepo(1, <<Float10, Float10>>), PlRepo(1, <<PlFile(1, "gguf", FALSE, "A")>>)>>, PlOnly(<<2, 1, 1>>, PlRow(1, 1, "B", "B")))
  EXCEPT !.mode = "aware", !.ram = 4]

\* Files that will be stored raw though their estimate says otherwise: only the approval sees it.
Unstreamed == [Tight(18) EXCEPT !.stream = FALSE, !.repos = <<PlRepo(1, <<Float10>>), PlRepo(1, <<Float10>>)>>, !.rows = PlNoRows]

\* Two homes already whole, the smaller on the hardware of the only replica drive.
TwoHomes == PlFleet(<<PlDisk(FALSE, TRUE, 30, <<1, 0, 9>>), PlDisk(FALSE, TRUE, 30, <<2, 0, 0>>), PlDisk(TRUE, FALSE, 30, <<3, 0, 9>>)>>,
  <<PlUp(20), PlLost(20), PlUp(28)>>, <<PlRepo(2, <<Float10>>)>>,
  [k \in {<<1, 1, 1>>, <<1, 1, 2>>} |-> IF k[3] = 1 THEN PlRow(8, 10, "A", "none") ELSE PlRow(10, 10, "A", "A")])

MCPlWorlds == {Unstreamed, TwoHomes, Tight(31), Tight(34), Packing, Domains, Unknowns, Bounded, Truncating, Sizeless, Replaced}
MCPlBounds == [previews |-> 2, changes |-> 1]
=============================================================================
