---------------------------- MODULE MCBuildDriver ----------------------------
(***************************************************************************)
(* Links of ready objects, with every program of MCArchiveSelection, the   *)
(* cartridge given on the command line, in a script or left to the driver; *)
(* and searches with two candidates in one unit and one in another, over   *)
(* every way in which the figures of the trials may turn out.              *)
(***************************************************************************)
EXTENDS MCArchiveSelection, BuildDriver

OnLine == {"topology", "shim", "app", "lib1", "lib2"}

Build(l) == [link |-> l, scanned |-> OnLine, cartridge |-> {"topology"},
             ramMapper |-> {}, moves |-> {}, provider |-> {}, script |-> FALSE,
             units |-> 0, candidate |-> <<>>, profit |-> FALSE]

\* No cartridge on the command line.
Bare(l) == [l EXCEPT !.input = @ \ {"topology"}, !.config = {}]

\* A program for 3E that moves swapped RAM, without helpers and with its own.
Moving == [Stock EXCEPT !.undef["app"] = <<"swapram_read">>]
Swapped == [Build(Moving) EXCEPT !.ramMapper = {"topology"}, !.moves = {"app"}]
OwnHelper == [Swapped EXCEPT !.link.strong["lib1"] = {"swapram_read"}, !.provider = {"lib1"}]

\* A program of two C26 inputs.
Searched == [Build(Bare(Stock)) EXCEPT !.units = 2, !.candidate = <<1, 1, 2>>, !.profit = TRUE]

MCFigures == {[rom |-> 2, ram |-> 1, stack |-> 2], [rom |-> 1, ram |-> 1, stack |-> 2],
              [rom |-> 2, ram |-> 1, stack |-> 1], [rom |-> 1, ram |-> 2, stack |-> 1]}

MCJob == {Build(Bare(l)) : l \in Programs}
         \cup {[Build(l) EXCEPT !.script = s] : l \in Shims \cup Incomplete, s \in BOOLEAN}
         \cup {[Build(Bare(l)) EXCEPT !.script = TRUE] : l \in Shims}
         \cup {Swapped, OwnHelper, Searched, [Searched EXCEPT !.profit = FALSE]}

MCLink == {j.link : j \in MCJob}
=============================================================================
