------------------------------- MODULE MCGate -------------------------------
(* Suites of three tests for checking Gate: one that the manifest names,   *)
(* one that it does not, and one that only the Go suite may skip.          *)
EXTENDS Gate

Did(named, other, azure, whole) ==
  [result |-> [t \in {"named", "other", "azure"} |->
                 CASE t = "named" -> named [] t = "other" -> other [] OTHER -> azure],
   whole |-> whole]

MCOutcomes ==
  [sdk |-> {Did("pass", "pass", "pass", TRUE), Did("absent", "pass", "pass", TRUE)},
   server |-> {Did("pass", "pass", "skip", TRUE), Did("pass", "cut", "skip", TRUE),
               Did("pass", "skip", "skip", TRUE)},
   security |-> {Did("pass", "pass", "pass", TRUE)}]

MCRequired == [sdk |-> {"named"}, server |-> {}, security |-> {"named"}]
MCAllowed == [sdk |-> {}, server |-> {"azure"}, security |-> {}]
MCMinimum == [sdk |-> 2, server |-> 1, security |-> 1]
=============================================================================
