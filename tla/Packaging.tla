------------------------------ MODULE Packaging ------------------------------
(***************************************************************************)
(* What the release tools make of a raw Gradle publication: package.py     *)
(* gives every rehosted artifact a coordinate derived from its bytes and   *)
(* rewrites the dependencies on it, validate.py checks the result without  *)
(* the packager's help, and jitpack.py maps a stage to JitPack's scheme of *)
(* one group and one tag.                                                  *)
(*                                                                         *)
(* A version is a tuple, so that versions of all kinds can be compared:    *)
(* <<>> for none, <<v>> for one that Gradle wrote, and                     *)
(* <<"sha256", x>> for the digest of x, which is taken to be injective.    *)
(***************************************************************************)
CONSTANTS
  Owned,         \* artifacts of dev.dootah
  Rehosted,      \* artifacts of Expo: INTERNAL and MIRRORS
  Builds,        \* what Gradle may publish and resolve
  Publications,  \* of each build: [old, dependencies, module, payload]
  Inventory,     \* of each build: the coordinates its graphs resolved
  Leaking,       \* payloads in which the content audit finds a secret or a path
  Developers,    \* configured maintainers
  None

Dootah == {"dev.dootah", "dev.dootah.internal"}

\* A Maven repository has one file tree per coordinate.
ASSUME PackagingAssumption ==
  /\ None \notin Builds
  /\ \A b \in Builds : \A p, q \in Publications[b] : p.old = q.old => p = q

\* The coordinates Dootah must not publish under or depend on.
Upstream == "host.exp.exponent"

Dynamic == <<"1.+">>
Development == <<"local">>

Olds(b) == {p.old : p \in Publications[b]}

\* Every archive holds the inventory, in its notices, beside what was compiled.
Binaries(b, p) == <<p.payload, Inventory[b]>>

Internals(b) == {p \in Publications[b] : p.old.name \in Rehosted}

\* Faulty variant: archives are hashed before the notices are added to them.
DigestWithoutNotices(b, developer) ==
  {<<developer, p.old, p.dependencies, p.module, p.payload>> : p \in Internals(b)}

\* What the internal version is a digest of: every internal payload and all raw metadata.
Digest(b, developer) ==
  {<<developer, p.old, p.dependencies, p.module, Binaries(b, p)>> : p \in Internals(b)}

\* Owned artifacts keep their coordinate, rehosted ones get Dootah's.
Mapped(b, developer, c) ==
  IF c \in Olds(b) /\ c.name \in Rehosted
  THEN [group |-> "dev.dootah.internal", name |-> c.name,
        version |-> <<"sha256", Digest(b, developer)>>]
  ELSE c

Known(b, c) == {r \in Inventory[b] : r.group = c.group /\ r.name = c.name}

\* A dependency without a version gets the one that the graphs resolved.
Resolved(b, developer, c) ==
  IF c \notin Olds(b) /\ c.version = <<>> /\ Known(b, c) # {}
  THEN CHOOSE r \in Known(b, c) : TRUE
  ELSE Mapped(b, developer, c)

Rendered(b, developer, p) ==
  [coordinate |-> Mapped(b, developer, p.old),
   dependencies |-> {Resolved(b, developer, d) : d \in p.dependencies},
   module |-> {Mapped(b, developer, d) : d \in p.module},
   binaries |-> Binaries(b, p),
   developer |-> developer]

\* Exactly the artifacts of the allowlist, each published once.
ExactlyAllowed(coordinates) ==
  /\ {c.name : c \in coordinates} = Owned \union Rehosted
  /\ \A c, d \in coordinates : c.name = d.name => c = d

\* package() stops in the middle of writing at a dependency without a version.
Resolvable(b) ==
  \A p \in Publications[b] : \A d \in p.dependencies :
    d \in Olds(b) \/ d.version # <<>> \/ Known(b, d) # {}

\* A repository is named by what it was packaged from.  Publications it holds:
Repositories == [build : Builds, developer : Developers \union {None}]

Contents == [r \in Repositories |->
  {Rendered(r.build, r.developer, p) : p \in Publications[r.build]}]

\* What package.py leaves of a repository when it ends in the middle.
Partial == [build |-> None, developer |-> None]

\* The content audit, which runs over the whole repository once it is written.
Clean(r) == \A p \in Publications[r.build] : p.payload \notin Leaking

-----------------------------------------------------------------------------
(* validate() *)

Coordinates(r) == {p.coordinate : p \in Contents[r]}

Immutable(c) == c.version \notin {<<>>, Dynamic}

Admissible(r, d) ==
  /\ Immutable(d)
  /\ d.group # Upstream
  /\ d.group \in Dootah => d \in Coordinates(r)

\* The repositories whose graph passes.
Wellformed == {r \in Repositories :
  /\ ExactlyAllowed(Coordinates(r))
  /\ \A p \in Contents[r] :
       /\ p.coordinate.group =
            IF p.coordinate.name \in Owned THEN "dev.dootah" ELSE "dev.dootah.internal"
       /\ p.coordinate.version # Development
       /\ \A d \in p.dependencies : Admissible(r, d)
       /\ \A d \in p.module : d.group \in Dootah => d \in Coordinates(r)}

-----------------------------------------------------------------------------
(* jitpack.main() *)

JitPack == "com.github"
Tag == <<"tag">>

\* Faulty variant: only the public group is mapped.
RecoordinatedPublic(c) ==
  IF c.group = "dev.dootah" THEN [group |-> JitPack, name |-> c.name, version |-> Tag] ELSE c

Recoordinated(c) ==
  IF c.group \in Dootah THEN [group |-> JitPack, name |-> c.name, version |-> Tag] ELSE c

\* The checks that end the run: another group, two versions of an artifact, two artifacts
\* of one name, a dependency on an artifact of Dootah that is not there.
Accepted(r) ==
  /\ \A c \in Coordinates(r) : c.group \in Dootah
  /\ \A c, d \in Coordinates(r) : c.name = d.name => c = d
  /\ \A p \in Contents[r] : \A d \in p.dependencies \union p.module :
       d.group \in Dootah =>
         \E c \in Coordinates(r) : c.group = d.group /\ c.name = d.name

ForJitPack(r) ==
  {[p EXCEPT !.coordinate = Recoordinated(p.coordinate),
             !.dependencies = {Recoordinated(d) : d \in p.dependencies},
             !.module = {Recoordinated(d) : d \in p.module}] : p \in Contents[r]}
=============================================================================
