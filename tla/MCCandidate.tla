---------------------------- MODULE MCCandidate ----------------------------
(* Builds for checking Candidate: an SDK of one artifact, which depends on *)
(* expo, which depends on expo-core and, without a version, on React.      *)
EXTENDS Candidate, TLC

Symmetry == Permutations(Stages) \union Permutations(Exports)

Coordinate(group, name, version) == [group |-> group, name |-> name, version |-> <<version>>]

Expo == Coordinate(Upstream, "expo", "57")
Core == Coordinate(Upstream, "core", "57")
Unversioned == [group |-> "com.facebook", name |-> "react", version |-> <<>>]
React(version) == [Unversioned EXCEPT !.version = <<version>>]
Unstaged == Coordinate("dev.dootah", "debug", "1.0")

MCBuilds == {"first", "fixed", "patched", "resolved", "unresolved", "leaking", "dangling"}

MCPublications == [b \in MCBuilds |->
  {[old |-> Coordinate("dev.dootah", "runtime", "1.0"), dependencies |-> {Expo}, module |-> {Expo},
    payload |-> IF b = "fixed" THEN "runtime fixed" ELSE "runtime"],
   [old |-> Expo,
    dependencies |->
      {Core, IF b = "dangling" THEN Unstaged ELSE Unversioned},
    module |-> {Core},
    payload |-> CASE b = "patched" -> "expo patched" [] b = "leaking" -> "leak" [] OTHER -> "expo"],
   [old |-> Core, dependencies |-> {}, module |-> {}, payload |-> "core"]}]

MCInventory == [b \in MCBuilds |->
  CASE b = "unresolved" -> {} [] b = "resolved" -> {React("0.82")} [] OTHER -> {React("0.81")}]

\* Stated here, so that TLC tabulates the contents of all repositories once, when it starts.
ASSUME ContentsType ==
  Contents \in [Repositories -> SUBSET UNION {Contents[r] : r \in Repositories}]
=============================================================================
