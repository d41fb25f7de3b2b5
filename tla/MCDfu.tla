------------------------------- MODULE MCDfu -------------------------------
(* Instances of Dfu for model checking. *)
EXTENDS Dfu, TLC

MCCapacity == [p \in Partition |-> IF p = "data" THEN 1 ELSE 2]
\* The upgrade image does not fill its last sector.
MCImageBlocks ==
  [p \in Partition |->
     MCCapacity[p] * NumFragments - (IF p = "upgrade" THEN 1 ELSE 0)]

\* Erased flash, and flash whose neighbouring fragments differ.
Filled(fragment(_)) ==
  [p \in Partition |->
     [s \in 0 .. MCCapacity[p] - 1 |->
        [f \in FragmentIndex |-> fragment(s * NumFragments + f)]]]
MCErased == LET blank(block) == Blank IN Filled(blank)
MCShipped ==
  LET striped(block) == IF block % 2 = 0 THEN CHOOSE d \in Payload : TRUE ELSE Blank
  IN  Filled(striped)
PayloadSymmetry == Permutations(Payload)

\* Where the state machine is when it is at rest or in an operation that takes
\* milliseconds: a host that is slower than the dispatch of a request meets it
\* only there.
SlowWindow == {"wait", "busy", "program", "finish"}
RestWindow == {"wait"}
AnyWindow == SmPoint

\* A second request can be waiting only while the first is kept waiting by the
\* flash.
BusyBacklog == {"busy", "program"}

\* Repertoires of the host.
AllCommands == Command
DownloadCommands == {"DNLOAD", "GETSTATUS", "CLRSTATUS", "ABORT", "SETALTERNATE"}
=============================================================================
