-------------------------- MODULE SharedProfilesProofs --------------------------
(***************************************************************************)
(* Theorems of SharedProfiles: as long as every writer has held the lock    *)
(* and nobody has removed it from under a live one, the two files are whole, *)
(* every write is one update of what was there, credentials.json follows    *)
(* the active profile, and the account keeps its tokens and cancellations.  *)
(***************************************************************************)
EXTENDS SharedProfiles, TLAPS

\* The profiles that are managed by the desktop, or active, have an entry.
WellFormed(p) == p.ours \cup ({p.active} \ {None}) \subseteq Stored(p)

\* What a run is doing fits the program of its process.
Fits(p, r) ==
    /\ p \in Clis =>
          /\ r.pc \in {"ready", "lock", "read", "legacy", "open", "fill", "rename", "mirror",
                       "unlink", "unlock", "done", "dead"}
          /\ r.op \in {"none", "upsert", "remove", "activate"}
    /\ p \in Engines =>
          /\ r.pc \in {"ready", "lock", "steal", "read", "open", "fill", "rename", "mirror",
                       "unlink", "unlock", "done", "dead"}
          /\ r.op \in {"none", "upsert", "remove"}
    /\ p \in Desktops =>
          /\ r.pc \in {"ready", "lock", "read", "change", "registry", "copy", "open", "fill",
                       "rename", "unlock", "done", "dead"}
          /\ r.op \in {"none", "save", "prune", "copy"}
          /\ r.file = "profiles"
          /\ r.pc = "lock" => r.op = "prune"
    /\ p \in Accounts =>
          /\ r.pc \in {"ready", "flock", "lock", "read", "browser", "exchange", "put", "unlock",
                       "done", "dead"}
          /\ r.op \in {"none", "login", "pending", "commit", "refresh", "signout", "failed"}
          /\ r.file = "profiles"
    /\ r.pc \in {"lock", "steal", "read", "legacy"} => r.file = "profiles"
    /\ r.pc \in {"flock", "lock", "steal", "read", "legacy", "open", "fill", "rename", "mirror",
                 "exchange", "put"} =>
          r.op # "none"
    /\ r.pc \in {"lock", "steal", "read", "legacy"} /\ p \in Clis \cup Engines => r.id \in Ids
    /\ r.pc \in {"open", "fill", "rename", "mirror"} => WellFormed(r.new)

\* The files, the locks and the registry are of their types; the desktop's selected
\* cluster is one of its clusters.
SharedTyped ==
    /\ live \in FilesType /\ tmp \in FilesType
    /\ WellFormed(live.profiles) /\ WellFormed(tmp.profiles)
    /\ lock \in Processes \cup {None} /\ flock \in Accounts \cup {None}
    /\ config \in [clusters : [Ids -> Keys \cup {None}], selected : Ids \cup {None}]
    /\ config.selected \in Clusters \cup {None}
    /\ issued \in Nat
    /\ orderly \in BOOLEAN /\ wiped \in BOOLEAN /\ replaced \subseteq 1..issued

\* The runs are of their type, and the commands of the desktop take turns.
RunsTyped ==
    /\ proc \in [Processes -> RunType]
    /\ \A p \in Processes : Fits(p, proc[p])
    /\ \A d, e \in Running \cap Desktops : d = e

Typed == SharedTyped /\ RunsTyped

\* Where a process works on the files.
Working(p) ==
    \/ proc[p].pc \in {"legacy", "open", "fill", "rename", "mirror", "unlink", "registry",
                       "exchange", "put", "unlock"}
    \/ proc[p].pc \in {"read", "change", "copy"} /\ proc[p].op # "save"

\* In order, who works holds the lock, and the lock is his.
LockFits(p) ==
    /\ proc[p].holds => p \in Running
    /\ orderly => /\ Working(p) => proc[p].holds
                  /\ proc[p].holds => lock = p

LockExcludes == \A p \in Processes : LockFits(p)

\* What the process that renames profiles.json may make of it.
Updates(p) ==
    CASE p \in Clis -> Edited(p, IF live.profiles.state = "whole"
                                 THEN live.profiles ELSE Migrated)
      [] p \in Engines -> Edited(p, BaseOfCopy)
      [] proc[p].op = "prune" -> {Pruned(live.profiles, proc[p].gone)}
      [] OTHER -> {Mirrored(BaseOfCopy)}

Text(p) == IF proc[p].file = "profiles" THEN proc[p].new ELSE proc[p].creds

\* A process that works on the files writes what follows from them as they are.
WritesFit(p) ==
    LET r == proc[p] IN
    /\ r.pc = "legacy" => live.profiles.state # "whole"
    /\ r.pc = "fill" => r.fd = "tmp" /\ tmp[r.file] = Torn[r.file]
    /\ r.pc = "rename" => tmp[r.file] = Text(p)
    /\ r.pc \in {"open", "fill", "rename"} /\ r.file = "profiles" =>
          r.new \in Updates(p) /\ r.new.state = "whole"
    /\ r.pc \in {"open", "fill", "rename"} /\ r.file = "credentials" =>
          /\ r.creds.state = "whole" /\ r.creds.mirror = ActiveKey(live.profiles)
          /\ p \in Clis => /\ r.creds.able = live.credentials.able
                           /\ r.creds.generation = live.credentials.generation
          /\ p \in Engines => r.creds.able = 0 /\ r.creds.generation = 0
    /\ r.pc \in {"open", "fill", "rename", "mirror"} /\ r.op = "upsert" => r.new.active # None
    /\ r.pc = "mirror" => live.profiles = r.new
    /\ r.pc = "unlink" =>
          /\ ActiveKey(live.profiles) = None
          /\ p \in Clis => live.credentials.able = 0 /\ live.credentials.generation = 0
    /\ r.pc = "unlock" /\ r.wrote /\ p \in Clis \cup Engines =>
          live.credentials.mirror = ActiveKey(live.profiles)
    /\ r.pc = "exchange" => r.creds = live.credentials /\ r.creds.able # 0
    /\ r.pc = "put" =>
          /\ r.creds.state = "whole" /\ r.creds.able \notin replaced
          /\ r.creds.able # 0 => r.creds.generation # 0

\* The files in order: whole, an absent credentials.json without a field, and an account
\* in it whose token has not been replaced.
FilesFit ==
    /\ NeverHalfWritten
    /\ live.credentials.state = "absent" => live.credentials = NoCreds
    /\ live.credentials.able \notin replaced
    /\ live.credentials.able # 0 => live.credentials.generation # 0

InOrder == orderly => FilesFit /\ \A p \in Processes : WritesFit(p)

\* A run that signs in has noted the generation it found.
SignIn(a) == proc[a].op \in {"pending", "commit"}

\* What it has noted is not newer than the stored one, and older once it has been
\* overtaken; what the helper is about to store is not older either, and newer when it
\* signs out.
LoginFits(a) ==
    LET stored == live.credentials.generation IN
    /\ proc[a].pc = "browser" => SignIn(a)
    /\ proc[a].pc = "exchange" => proc[a].op = "refresh"
    /\ proc[a].op = "login" => ~proc[a].late
    /\ SignIn(a) => proc[a].generation <= stored
    /\ SignIn(a) /\ proc[a].late => proc[a].generation < stored
    /\ proc[a].pc = "put" =>
          /\ proc[a].creds.generation >= stored
          /\ proc[a].op = "signout" => proc[a].creds.generation > stored
          /\ proc[a].op = "commit" => proc[a].generation = stored

\* A run that has signed out has overtaken all that sign in.
SignedOut(a) ==
    proc[a].op = "signout" /\ proc[a].pc = "unlock" =>
        \A b \in Accounts : SignIn(b) => proc[b].generation < live.credentials.generation

Generations == orderly /\ ~wiped => \A a \in Accounts : LoginFits(a) /\ SignedOut(a)

IInv == Typed /\ LockExcludes /\ InOrder /\ Generations

--------------------------------------------------------------------------------
(* Operators of the model.                                                   *)

\* A profiles.json without an entry, whole or not, has nothing to be wrong about.
LEMMA EmptyFits ==
    \A state \in {"absent", "torn", "whole"} :
        /\ Profiles(state, NoNames, {}, None) \in ProfilesType
        /\ WellFormed(Profiles(state, NoNames, {}, None))
        /\ Profiles(state, NoNames, {}, None).state = state
  BY DEF Profiles, NoNames, ProfilesType, WellFormed, Stored

\* An operation of the CLI or of the engine keeps the profiles well-formed.
LEMMA EditedFits ==
    ASSUME NEW p \in Processes, proc[p].op # "none", proc[p].id \in Ids,
           NEW base \in ProfilesType, WellFormed(base), base.state = "whole",
           NEW new \in Edited(p, base)
    PROVE  new \in ProfilesType /\ WellFormed(new) /\ new.state = "whole"
  <1> DEFINE id == proc[p].id
  <1>1. p \in Keys /\ p # None /\ id # None
    BY SharedProfilesAssumption DEF Keys
  <1>2. CASE proc[p].op = "upsert"
    <2>1. /\ new.state = "whole" /\ new.names = [base.names EXCEPT ![id] = p]
          /\ new.ours \in {base.ours, base.ours \ {id}}
          /\ new.active \in {base.active, id}
          /\ new = Profiles("whole", new.names, new.ours, new.active)
      BY <1>2 DEF Edited, Profiles
    <2>2. /\ new.names \in [Ids -> Keys \cup {None}]
          /\ \A i \in Ids : base.names[i] # None => new.names[i] # None
          /\ new.names[id] # None
      BY <1>1, <2>1 DEF ProfilesType
    <2>3. new.ours \in SUBSET Ids /\ new.active \in Ids \cup {None}
      BY <2>1 DEF ProfilesType
    <2>4. id \in Ids
      OBVIOUS
    <2>5. Stored(base) \cup {id} \subseteq Stored(new)
      <3>1. ASSUME NEW i \in Stored(base) \cup {id}
            PROVE  i \in Ids /\ new.names[i] # None
        BY <2>2, <2>4 DEF Stored
      <3>2. QED
        BY <3>1 DEF Stored
    <2>6. WellFormed(new)
      BY <2>1, <2>5 DEF WellFormed
    <2>7. QED
      BY <2>1, <2>2, <2>3, <2>6 DEF ProfilesType, Profiles
  <1>3. CASE proc[p].op = "remove"
    <2> DEFINE rest == Stored(base) \ {id}
               next == IF base.active # id THEN {base.active}
                       ELSE IF rest = {} THEN {None} ELSE rest
    <2>1. proc[p].op # "upsert" /\ proc[p].op = "remove"
      BY <1>3
    <2>2. id \notin Stored(base) => Edited(p, base) = {}
      BY <2>1, Zenon DEF Edited
    <2>3. id \in Stored(base)
      BY <2>2
    <2>4. Edited(p, base) =
             {Profiles("whole", [base.names EXCEPT ![id] = None], base.ours \ {id}, a) : a \in next}
      BY <2>1, <2>3, Zenon DEF Edited
    <2>5. PICK a \in next :
             new = Profiles("whole", [base.names EXCEPT ![id] = None], base.ours \ {id}, a)
      BY <2>4
    <2>6. /\ id \in Stored(base)
          /\ new.state = "whole" /\ new.names = [base.names EXCEPT ![id] = None]
          /\ new.ours = base.ours \ {id}
          /\ \/ new.active = base.active /\ base.active # id
             \/ new.active \in (Stored(base) \ {id}) \cup {None}
          /\ new = Profiles("whole", new.names, new.ours, new.active)
      BY <2>3, <2>5 DEF Profiles
    <2>7. /\ new.names \in [Ids -> Keys \cup {None}]
          /\ \A i \in Ids \ {id} : new.names[i] = base.names[i]
      BY <2>6 DEF ProfilesType
    <2>8. QED
      BY <2>6, <2>7 DEF ProfilesType, Profiles, WellFormed, Stored
  <1>4. CASE proc[p].op \notin {"upsert", "remove"}
    <2>1. id \in Stored(base) /\ new = [base EXCEPT !.active = id]
      BY <1>4 DEF Edited
    <2>2. QED
      BY <2>1 DEF ProfilesType, WellFormed, Stored
  <1>5. QED
    BY <1>2, <1>3, <1>4

\* What an older credentials.json becomes is whole and well-formed.
LEMMA MigratedFits ==
    ASSUME SharedTyped
    PROVE  Migrated \in ProfilesType /\ WellFormed(Migrated) /\ Migrated.state = "whole"
  <1>1. live.credentials.mirror \in Keys \cup {None}
    BY DEF SharedTyped, FilesType, CredsType
  <1>2. CASE live.credentials.mirror = None
    BY <1>2, EmptyFits DEF Migrated, EmptyProfiles
  <1>3. CASE live.credentials.mirror # None
    BY <1>1, <1>3, SharedProfilesAssumption
       DEF Migrated, Profiles, NoNames, ProfilesType, WellFormed, Stored
  <1>4. QED
    BY <1>2, <1>3

\* Removing clusters keeps the profiles well-formed.
LEMMA PrunedFits ==
    ASSUME NEW base \in ProfilesType, WellFormed(base), NEW gone \in SUBSET Ids
    PROVE  /\ Pruned(base, gone) \in ProfilesType /\ WellFormed(Pruned(base, gone))
           /\ Pruned(base, gone).state = base.state
  <1>1. /\ Pruned(base, gone).state = base.state
        /\ Pruned(base, gone).names = [i \in Ids |-> IF i \in gone THEN None ELSE base.names[i]]
        /\ Pruned(base, gone).ours = base.ours \ gone
        /\ Pruned(base, gone).active = IF base.active \in gone THEN None ELSE base.active
        /\ Pruned(base, gone) \in ProfilesType
    BY Zenon DEF Pruned, ProfilesType
  <1>2. QED
    BY <1>1 DEF WellFormed, Stored, ProfilesType

\* The copy of the registry is whole and well-formed.
LEMMA MirroredFits ==
    ASSUME SharedTyped
    PROVE  /\ Mirrored(BaseOfCopy) \in ProfilesType /\ WellFormed(Mirrored(BaseOfCopy))
           /\ Mirrored(BaseOfCopy).state = "whole"
  <1> DEFINE base == BaseOfCopy
             mine == Clusters \ (Stored(base) \ base.ours)
  <1>1. base \in ProfilesType /\ WellFormed(base)
    BY EmptyFits DEF BaseOfCopy, EmptyProfiles, SharedTyped, FilesType, WellFormed
  <1>2. /\ config.clusters \in [Ids -> Keys \cup {None}] /\ mine \subseteq Ids
        /\ Mirrored(base) = Profiles("whole",
              [i \in Ids |-> IF i \in mine THEN config.clusters[i]
                             ELSE IF i \in base.ours THEN None ELSE base.names[i]],
              mine, config.selected)
    BY DEF SharedTyped, Mirrored, Clusters
  <1>3. config.selected \in Ids \cup {None} /\ config.selected \in Clusters \cup {None}
    BY DEF SharedTyped
  <1> HIDE DEF base
  <1>4. \A i \in mine : config.clusters[i] # None
    BY DEF Clusters
  <1>5. config.selected # None => config.selected \in mine
              \/ (config.selected \notin base.ours /\ base.names[config.selected] # None)
    BY <1>2, <1>3 DEF Stored
  <1>6. Mirrored(base).state = "whole" /\ Mirrored(base) \in ProfilesType
    BY <1>1, <1>2, <1>3 DEF Profiles, ProfilesType
  <1>7. WellFormed(Mirrored(base))
    BY <1>2, <1>3, <1>4, <1>5 DEF Profiles, WellFormed, Stored
  <1>8. QED
    BY <1>6, <1>7 DEF base

\* The types of what is written grow with the generations that are issued.
LEMMA TypesGrow ==
    ASSUME issued \in Nat, issued' \in {issued, Fresh}
    PROVE  /\ issued' \in Nat /\ CredsType \subseteq CredsType' /\ RunType \subseteq RunType'
           /\ FilesType \subseteq FilesType' /\ 0..issued \subseteq 0..issued'
           /\ 1..issued \subseteq 1..issued' /\ ProfilesType' = ProfilesType
  <1>1. issued' \in Nat /\ 0..issued \subseteq 0..issued' /\ 1..issued \subseteq 1..issued'
    BY DEF Fresh
  <1>2. ProfilesType' = ProfilesType
    BY DEF ProfilesType, Keys, Processes, Writers
  <1>3. CredsType \subseteq CredsType'
    BY <1>1 DEF CredsType, Keys, Processes, Writers
  <1>4. FilesType \subseteq FilesType'
    BY <1>2, <1>3 DEF FilesType
  <1>5. RunType \subseteq RunType'
    BY <1>1, <1>2, <1>3 DEF RunType
  <1>6. QED
    BY <1>1, <1>2, <1>3, <1>4, <1>5

\* Every field of a run may take every value of its type.
LEMMA RunFields ==
    ASSUME NEW r \in RunType
    PROVE  /\ \A pc \in Pcs : [r EXCEPT !.pc = pc] \in RunType
           /\ \A op \in Ops : [r EXCEPT !.op = op] \in RunType
           /\ \A b \in BOOLEAN : /\ [r EXCEPT !.holds = b] \in RunType
                                 /\ [r EXCEPT !.late = b] \in RunType
                                 /\ [r EXCEPT !.wrote = b] \in RunType
           /\ \A f \in {"profiles", "credentials"} : [r EXCEPT !.file = f] \in RunType
           /\ \A n \in ProfilesType : [r EXCEPT !.new = n] \in RunType
           /\ \A c \in CredsType : [r EXCEPT !.creds = c] \in RunType
           /\ \A fd \in {"none", "tmp", "live", "gone"} : [r EXCEPT !.fd = fd] \in RunType
           /\ \A gone \in SUBSET Ids : [r EXCEPT !.gone = gone] \in RunType
           /\ \A g \in 0..issued : [r EXCEPT !.generation = g] \in RunType
  <1>1. /\ \A pc \in Pcs : [r EXCEPT !.pc = pc] \in RunType
        /\ \A op \in Ops : [r EXCEPT !.op = op] \in RunType
    BY DEF RunType
  <1>2. \A b \in BOOLEAN : /\ [r EXCEPT !.holds = b] \in RunType
                           /\ [r EXCEPT !.late = b] \in RunType
                           /\ [r EXCEPT !.wrote = b] \in RunType
    BY DEF RunType
  <1>3. /\ \A f \in {"profiles", "credentials"} : [r EXCEPT !.file = f] \in RunType
        /\ \A n \in ProfilesType : [r EXCEPT !.new = n] \in RunType
        /\ \A c \in CredsType : [r EXCEPT !.creds = c] \in RunType
    BY DEF RunType
  <1>4. /\ \A fd \in {"none", "tmp", "live", "gone"} : [r EXCEPT !.fd = fd] \in RunType
        /\ \A gone \in SUBSET Ids : [r EXCEPT !.gone = gone] \in RunType
        /\ \A g \in 0..issued : [r EXCEPT !.generation = g] \in RunType
    BY SMTT(40) DEF RunType
  <1>5. QED
    BY <1>1, <1>2, <1>3, <1>4

\* The fields of a run are of their types.
LEMMA RunTyped ==
    ASSUME NEW r \in RunType
    PROVE  /\ r.pc \in Pcs /\ r.op \in Ops /\ r.id \in Ids \cup {None}
           /\ r.file \in {"profiles", "credentials"} /\ r.new \in ProfilesType
           /\ r.creds \in CredsType /\ r.gone \in SUBSET Ids
           /\ r.holds \in BOOLEAN /\ r.late \in BOOLEAN /\ r.wrote \in BOOLEAN
           /\ r.generation \in 0..issued
  BY DEF RunType

\* A run keeps its type where it goes on, whatever it does next.
LEMMA RunGoes ==
    ASSUME NEW r \in RunType, NEW pc \in Pcs, NEW op \in Ops
    PROVE  /\ [r EXCEPT !.op = op, !.pc = pc] \in RunType
           /\ [r EXCEPT !.pc = pc, !.op = op] \in RunType
           /\ \A id \in Ids, flag \in BOOLEAN :
                 /\ [r EXCEPT !.pc = pc, !.op = op, !.id = id] \in RunType
                 /\ [r EXCEPT !.pc = pc, !.op = op, !.id = id, !.flag = flag] \in RunType
           /\ \A n \in ProfilesType : [r EXCEPT !.op = op, !.new = n, !.pc = pc] \in RunType
           /\ \A g \in 0..issued : [r EXCEPT !.op = op, !.pc = pc, !.generation = g] \in RunType
  <1>1. /\ [r EXCEPT !.op = op, !.pc = pc] \in RunType
        /\ [r EXCEPT !.pc = pc, !.op = op] \in RunType
    BY Zenon DEF RunType
  <1>2. \A id \in Ids, flag \in BOOLEAN :
           /\ [r EXCEPT !.pc = pc, !.op = op, !.id = id] \in RunType
           /\ [r EXCEPT !.pc = pc, !.op = op, !.id = id, !.flag = flag] \in RunType
    BY Zenon DEF RunType
  <1>3. \A n \in ProfilesType : [r EXCEPT !.op = op, !.new = n, !.pc = pc] \in RunType
    BY Zenon DEF RunType
  <1>4. \A g \in 0..issued : [r EXCEPT !.op = op, !.pc = pc, !.generation = g] \in RunType
    BY Zenon DEF RunType
  <1>5. QED
    BY <1>1, <1>2, <1>3, <1>4, Zenon

\* The places a run may be at, and what it may do.
LEMMA PlacesTyped ==
    /\ {"ready", "flock", "lock", "steal", "read", "legacy", "change", "registry", "copy"} \subseteq Pcs
    /\ {"open", "fill", "rename", "mirror", "unlink", "browser", "exchange", "put"} \subseteq Pcs
    /\ {"unlock", "done", "dead"} \subseteq Pcs
    /\ {"none", "upsert", "remove", "activate", "save", "prune", "copy"} \subseteq Ops
    /\ {"login", "pending", "commit", "refresh", "signout", "failed"} \subseteq Ops
  BY DEF Pcs, Ops

\* So are a run that has not started and files that are absent, empty or torn.
LEMMA BlankTyped ==
    ASSUME issued \in Nat
    PROVE  /\ Blank \in RunType /\ NoProfiles \in ProfilesType /\ NoCreds \in CredsType
           /\ TornCreds \in CredsType /\ TornProfiles \in ProfilesType
           /\ EmptyCreds \in CredsType
  <1>1. NoProfiles \in ProfilesType /\ TornProfiles \in ProfilesType
    BY EmptyFits DEF NoProfiles, TornProfiles
  <1>2. NoCreds \in CredsType /\ TornCreds \in CredsType /\ EmptyCreds \in CredsType
    BY DEF NoCreds, TornCreds, EmptyCreds, Creds, CredsType
  <1>3. QED
    BY <1>1, <1>2 DEF Blank, RunType, Pcs, Ops

--------------------------------------------------------------------------------
(* Types: what each action leaves is of its type and fits its program.       *)

\* The type invariant of the runs is part of what is kept.
LEMMA TypedIsTypeOK == Typed => TypeOK
  BY DEF Typed, SharedTyped, RunsTyped, TypeOK, WellFormed

\* The shared state keeps its types when no file, no registry and no token changes.
LEMMA SharedStays ==
    ASSUME SharedTyped, UNCHANGED <<files, config, replaced>>, issued' \in {issued, Fresh},
           lock' \in Processes \cup {None}, flock' \in Accounts \cup {None},
           orderly' \in BOOLEAN, wiped' \in BOOLEAN
    PROVE  SharedTyped'
  <1>1. /\ issued' \in Nat /\ live' \in FilesType' /\ tmp' \in FilesType'
        /\ replaced' \subseteq 1..issued'
    BY TypesGrow DEF SharedTyped, files
  <1>2. /\ config' \in [clusters : [Ids -> Keys \cup {None}], selected : Ids \cup {None}]
        /\ config'.selected \in Clusters' \cup {None}
    BY DEF SharedTyped, Clusters
  <1>3. WellFormed(live'.profiles) /\ WellFormed(tmp'.profiles)
    BY DEF SharedTyped, files
  <1>4. QED
    BY <1>1, <1>2, <1>3 DEF SharedTyped, Keys, Processes, Writers, WellFormed, Stored

\* When a run of p becomes r and no other run changes.
Becomes(p, r) == proc' = [proc EXCEPT ![p] = r]

\* The runs keep their types when one of them goes on,
LEMMA RunStep ==
    ASSUME RunsTyped, issued \in Nat, issued' \in {issued, Fresh},
           NEW p \in Processes, NEW r \in RunType', Becomes(p, r), Fits(p, r),
           p \in Desktops /\ r.pc \notin {"ready", "done", "dead"} =>
              p \in Running \/ Running \cap Desktops = {}
    PROVE  RunsTyped'
  <1>1. /\ proc' \in [Processes -> RunType'] /\ proc'[p] = r
        /\ \A q \in Processes \ {p} : proc'[q] = proc[q]
    BY TypesGrow DEF RunsTyped, Becomes
  <1>2. \A q \in Processes : Fits(q, proc'[q])
    BY <1>1 DEF RunsTyped
  <1>3. Running' \subseteq Running \cup {p}
        /\ (p \in Running' => r.pc \notin {"ready", "done", "dead"})
    BY <1>1 DEF Running
  <1>4. \A d, e \in Running' \cap Desktops : d = e
    BY <1>3 DEF RunsTyped
  <1>5. QED
    BY <1>1, <1>2, <1>4 DEF RunsTyped, Fits, WellFormed, Stored

\* A run that leaves, ends or goes on is of its type.
LEMMA EndFits ==
    ASSUME Typed, NEW p \in Processes, NEW how \in {"ready", "done", "dead", "unlock"},
           NEW h \in BOOLEAN, NEW w \in BOOLEAN
    PROVE  /\ [Blank EXCEPT !.pc = how] \in RunType /\ Fits(p, [Blank EXCEPT !.pc = how])
           /\ [Blank EXCEPT !.pc = how, !.holds = h, !.wrote = w] \in RunType
           /\ Fits(p, [Blank EXCEPT !.pc = how, !.holds = h, !.wrote = w])
  <1>1. Blank \in RunType /\ issued \in Nat
    BY BlankTyped DEF Typed, SharedTyped
  <1>2. how \in Pcs
    BY DEF Pcs
  <1>3. [Blank EXCEPT !.pc = how] \in RunType
    BY <1>1, <1>2, RunFields, Zenon
  <1>4. [Blank EXCEPT !.pc = how, !.holds = h, !.wrote = w] \in RunType
    BY <1>1, <1>2, Zenon DEF RunType
  <1>5. QED
    BY <1>3, <1>4 DEF Fits, Blank

\* A step of p that changes none of the files, nor the registry.
LEMMA QuietStep ==
    ASSUME Typed, NEW p \in Processes, NEW r \in RunType', Becomes(p, r), Fits(p, r),
           UNCHANGED <<files, config, replaced, wiped>>, issued' \in {issued, Fresh},
           orderly' \in BOOLEAN, lock' \in {lock, p, None},
           flock' \in {flock, None} \/ (p \in Accounts /\ flock' = p),
           p \in Desktops /\ r.pc \notin {"ready", "done", "dead"} =>
              p \in Running \/ Running \cap Desktops = {}
    PROVE  Typed'
  <1>1. SharedTyped'
    BY SharedStays DEF Typed, SharedTyped
  <1>2. QED
    BY <1>1, RunStep DEF Typed, SharedTyped

\* What is known of the run of p before its step.
LEMMA OwnRun ==
    ASSUME Typed, NEW p \in Processes
    PROVE  /\ proc \in [Processes -> RunType] /\ proc[p] \in RunType /\ Fits(p, proc[p])
           /\ issued \in Nat /\ orderly \in BOOLEAN
  BY DEF Typed, RunsTyped, SharedTyped

\* The lock: taking it, going on without it, and stealing it.
LEMMA TypedLock ==
    ASSUME Typed, NEW p \in Processes,
           TakeLock(p) \/ GoUnlocked(p) \/ SeesStale(p) \/ Steal(p) \/ TakeFlock(p)
    PROVE  Typed'
  <1>1. /\ proc \in [Processes -> RunType] /\ proc[p] \in RunType /\ Fits(p, proc[p])
        /\ issued \in Nat /\ orderly \in BOOLEAN
    BY OwnRun
  <1>2. /\ UNCHANGED <<files, config, replaced, issued, wiped>> /\ orderly' \in BOOLEAN
        /\ lock' \in {lock, p, None} /\ p \in Running
    BY <1>1, Zenon DEF TakeLock, GoUnlocked, SeesStale, Steal, TakeFlock, locks, ghosts, files, Dropped,
                At, Running
  <1>3. flock' = flock \/ (p \in Accounts /\ flock' = p)
    BY <1>1 DEF TakeLock, GoUnlocked, SeesStale, Steal, TakeFlock, locks, At, Fits, Processes,
                Writers
  <1>4. ASSUME NEW r \in RunType, Becomes(p, r), Fits(p, r)
        PROVE  Typed'
    BY <1>1, <1>2, <1>3, <1>4, QuietStep, TypesGrow
  <1>5. CASE TakeLock(p)
    <2> DEFINE r == [proc[p] EXCEPT !.pc = "read", !.holds = TRUE]
    <2>1. Becomes(p, r)
      BY <1>1, <1>5, Zenon DEF TakeLock, Becomes
    <2>2. r \in RunType
      BY <1>1, Zenon DEF RunType, Pcs
    <2>3. Fits(p, r)
      BY <1>1, <1>5 DEF TakeLock, At, Fits, RunType
    <2>4. QED
      BY <1>4, <2>1, <2>2, <2>3
  <1>6. CASE GoUnlocked(p)
    <2> DEFINE r == [proc[p] EXCEPT !.pc = "read"]
    <2>1. Becomes(p, r) /\ r \in RunType
      BY <1>1, <1>6, RunFields, Zenon DEF GoUnlocked, Becomes, Pcs
    <2>2. Fits(p, r)
      BY <1>1, <1>6 DEF GoUnlocked, At, Fits, RunType
    <2>3. QED
      BY <1>4, <2>1, <2>2
  <1>7. CASE SeesStale(p)
    <2> DEFINE r == [proc[p] EXCEPT !.pc = "steal"]
    <2>1. Becomes(p, r) /\ r \in RunType
      BY <1>1, <1>7, RunFields, Zenon DEF SeesStale, Becomes, Pcs
    <2>2. Fits(p, r)
      BY <1>1, <1>7, SharedProfilesAssumption DEF SeesStale, At, Fits, RunType, Writers
    <2>3. QED
      BY <1>4, <2>1, <2>2
  <1>8. CASE Steal(p)
    <2> DEFINE r == [proc[p] EXCEPT !.pc = "lock"]
    <2>1. Becomes(p, r) /\ r \in RunType
      BY <1>1, <1>8, RunFields, Zenon DEF Steal, Becomes, Pcs
    <2>2. Fits(p, r)
      BY <1>1, <1>8 DEF Steal, At, Fits, RunType
    <2>3. QED
      BY <1>4, <2>1, <2>2
  <1>9. CASE TakeFlock(p)
    <2> DEFINE r == [proc[p] EXCEPT !.pc = "lock"]
    <2>1. Becomes(p, r) /\ r \in RunType
      BY <1>1, <1>9, RunFields, Zenon DEF TakeFlock, Becomes, Pcs
    <2>2. Fits(p, r)
      BY <1>1, <1>9 DEF TakeFlock, At, Fits, RunType, Processes, Writers
    <2>3. QED
      BY <1>4, <2>1, <2>2
  <1>10. QED
    BY <1>5, <1>6, <1>7, <1>8, <1>9

\* The ends of a run: it gives up, leaves the browser, dies, or gives its locks back.
LEMMA TypedEnd ==
    ASSUME Typed, NEW p \in Processes, GiveUp(p) \/ AbandonLogin(p) \/ Die(p)
    PROVE  Typed'
  <1>1. PICK how \in {"done", "dead"} : Becomes(p, [Blank EXCEPT !.pc = how])
    BY DEF GiveUp, AbandonLogin, Die, Ended, Becomes
  <1>2. /\ UNCHANGED <<files, config, replaced, wiped, issued, orderly, lock>>
        /\ flock' \in {flock, None}
    BY DEF GiveUp, AbandonLogin, Die, locks, ghosts
  <1>3. [Blank EXCEPT !.pc = how] \in RunType' /\ Fits(p, [Blank EXCEPT !.pc = how])
    BY <1>2, EndFits, TypesGrow, OwnRun, Zenon
  <1>4. [Blank EXCEPT !.pc = how].pc \in {"done", "dead"}
    BY DEF Blank
  <1>5. QED
    BY <1>1, <1>2, <1>3, <1>4, QuietStep, OwnRun, Zenon

\* The removal of a lock that nobody holds any more.
LEMMA TypedRemoveLock == Typed /\ RemoveLock => Typed'
  <1> SUFFICES ASSUME Typed, RemoveLock PROVE Typed'
    OBVIOUS
  <1>1. SharedTyped'
    BY SharedStays DEF Typed, SharedTyped, RemoveLock, ghosts, files
  <1>2. RunsTyped'
    BY DEF Typed, RunsTyped, RemoveLock, RunType, ProfilesType, CredsType, Keys, Processes, Writers,
           Fits, WellFormed, Stored, Running
  <1>3. QED
    BY <1>1, <1>2 DEF Typed

\* A run begins.
LEMMA TypedStart ==
    ASSUME Typed, NEW p \in Processes,
           StartCli(p) \/ StartEngine(p) \/ StartDesktop(p) \/ StartAccount(p)
    PROVE  Typed'
  <1>1. Blank \in RunType /\ issued \in Nat /\ orderly \in BOOLEAN
    BY BlankTyped, OwnRun
  <1>2. /\ UNCHANGED <<files, config, replaced, wiped, issued, orderly, lock, flock>>
        /\ p \in Desktops => Running \cap Desktops = {}
    BY SharedProfilesAssumption, Zenon
       DEF StartCli, StartEngine, StartDesktop, StartAccount, Start, locks, ghosts, Processes, Writers
  <1>3. ASSUME NEW r \in RunType, Becomes(p, r), Fits(p, r)
        PROVE  Typed'
    BY <1>1, <1>2, <1>3, QuietStep, TypesGrow
  <1>4. CASE StartCli(p)
    <2>1. PICK op \in {"upsert", "remove", "activate"}, id \in Ids, flag \in BOOLEAN :
             Becomes(p, [Blank EXCEPT !.pc = "lock", !.op = op, !.id = id, !.flag = flag])
      BY <1>4, ZenonT(60) DEF StartCli, Start, Becomes
    <2> DEFINE r == [Blank EXCEPT !.pc = "lock", !.op = op, !.id = id, !.flag = flag]
    <2>2. r \in RunType
      <3>1. "lock" \in Pcs /\ op \in Ops
        BY PlacesTyped
      <3>2. QED
        BY <1>1, <3>1, RunGoes, ZenonT(60)
    <2>3. Fits(p, r)
      BY <1>4, SharedProfilesAssumption, Zenon DEF StartCli, Blank, Fits, Writers
    <2>4. QED
      BY <1>3, <2>1, <2>2, <2>3
  <1>5. CASE StartEngine(p)
    <2>1. PICK op \in {"upsert", "remove"} :
             Becomes(p, [Blank EXCEPT !.pc = "lock", !.op = op, !.id = VmId])
      BY <1>5, Zenon DEF StartEngine, Start, Becomes
    <2> DEFINE r == [Blank EXCEPT !.pc = "lock", !.op = op, !.id = VmId]
    <2>2. r \in RunType
      BY <1>1, RunGoes, PlacesTyped, SharedProfilesAssumption, ZenonT(60)
    <2>3. Fits(p, r)
      BY <1>5, SharedProfilesAssumption DEF StartEngine, Blank, Fits, Writers
    <2>4. QED
      BY <1>3, <2>1, <2>2, <2>3
  <1>6. CASE StartDesktop(p)
    <2>1. PICK r \in {[Blank EXCEPT !.op = "save", !.pc = "read"],
                      [Blank EXCEPT !.op = "prune", !.pc = "lock"]} : Becomes(p, r)
      BY <1>6 DEF StartDesktop, Start, Becomes
    <2>2. r \in RunType
      <3>1. [Blank EXCEPT !.op = "save", !.pc = "read"] \in RunType
        <4>1. "read" \in Pcs /\ "save" \in Ops
          BY PlacesTyped
        <4>2. QED
          BY <1>1, <4>1, RunGoes, ZenonT(60)
      <3>2. [Blank EXCEPT !.op = "prune", !.pc = "lock"] \in RunType
        <4>1. "lock" \in Pcs /\ "prune" \in Ops
          BY PlacesTyped
        <4>2. QED
          BY <1>1, <4>1, RunGoes, Zenon
      <3>3. QED
        BY <2>1, <3>1, <3>2
    <2>3. Fits(p, r)
      BY <1>6, SharedProfilesAssumption, ZenonT(60) DEF StartDesktop, Blank, Fits, Writers
    <2>4. QED
      BY <1>3, <2>1, <2>2, <2>3
  <1>7. CASE StartAccount(p)
    <2>1. PICK op \in {"login", "refresh", "signout"} :
             Becomes(p, [Blank EXCEPT !.pc = "flock", !.op = op])
      BY <1>7, Zenon DEF StartAccount, Start, Becomes
    <2> DEFINE r == [Blank EXCEPT !.pc = "flock", !.op = op]
    <2>2. r \in RunType
      BY <1>1, RunGoes, PlacesTyped, ZenonT(60)
    <2>3. Fits(p, r)
      BY <1>7, SharedProfilesAssumption DEF StartAccount, Blank, Fits, Writers
    <2>4. QED
      BY <1>3, <2>1, <2>2, <2>3
  <1>8. QED
    BY <1>4, <1>5, <1>6, <1>7

\* What a step of one process leaves of the run of another: all but its open file, and
\* whether it has been overtaken.
Kept(q) ==
    LET r == proc[q]
        s == proc'[q]
    IN  /\ s.pc = r.pc /\ s.op = r.op /\ s.id = r.id /\ s.flag = r.flag /\ s.holds = r.holds
        /\ s.file = r.file /\ s.new = r.new /\ s.creds = r.creds /\ s.gone = r.gone
        /\ s.generation = r.generation /\ s.wrote = r.wrote
        /\ r.late => s.late

\* and when the others learn of it.
LEMMA RunsStep ==
    ASSUME RunsTyped, NEW p \in Processes, proc' \in [Processes -> RunType'], Fits(p, proc'[p]),
           \A q \in Processes \ {p} : Kept(q),
           p \in Desktops /\ proc'[p].pc \notin {"ready", "done", "dead"} =>
              p \in Running \/ Running \cap Desktops = {}
    PROVE  RunsTyped'
  <1>1. ASSUME NEW q \in Processes \ {p}
        PROVE  Fits(q, proc'[q]) /\ (q \in Running' => q \in Running)
    <2>1. Kept(q) /\ Fits(q, proc[q])
      BY DEF RunsTyped
    <2>2. QED
      BY <2>1 DEF Kept, Fits, Running
  <1>2. p \in Running' => proc'[p].pc \notin {"ready", "done", "dead"}
    BY DEF Running
  <1>3. \A d, e \in Running' \cap Desktops : d = e
    <2>1. Running' \subseteq Running \cup {p}
      BY <1>1 DEF Running
    <2>2. QED
      BY <1>2, <2>1 DEF RunsTyped
  <1>4. QED
    BY <1>1, <1>3 DEF RunsTyped, Fits, WellFormed, Stored

\* The locks are given back; a sign-out overtakes the sign-ins under way.
LEMMA TypedUnlock ==
    ASSUME Typed, NEW p \in Processes, Unlock(p)
    PROVE  Typed'
  <1>1. /\ proc \in [Processes -> RunType] /\ proc[p] \in RunType /\ Fits(p, proc[p])
        /\ issued \in Nat /\ orderly \in BOOLEAN
    BY OwnRun
  <1>2. /\ UNCHANGED <<files, config, replaced, wiped, issued>> /\ orderly' \in BOOLEAN
        /\ lock' \in {lock, None} /\ flock' \in {flock, None} /\ p \in Running
    BY <1>1, Zenon DEF Unlock, Dropped, At, Running
  <1>3. SharedTyped'
    BY <1>2, SharedStays DEF Typed, SharedTyped
  <1>4. CASE proc[p].op = "pending"
    <2> DEFINE r == [proc[p] EXCEPT !.pc = "browser", !.holds = FALSE]
    <2>1. Becomes(p, r)
      BY <1>1, <1>4, Zenon DEF Unlock, Becomes
    <2>2. r \in RunType
      BY <1>1, Zenon DEF RunType, Pcs
    <2>3. Fits(p, r)
      BY <1>1, <1>4 DEF Unlock, At, Fits, RunType, Processes, Writers
    <2>4. QED
      BY <1>1, <1>2, <2>1, <2>2, <2>3, QuietStep, TypesGrow
  <1>5. CASE proc[p].op # "pending"
    <2>1. proc' = [q \in Processes |->
                     IF q = p THEN [Blank EXCEPT !.pc = "done"]
                     ELSE IF proc[p].op = "signout" THEN Overtaken(proc[q]) ELSE proc[q]]
      BY <1>5 DEF Unlock
    <2>2. ASSUME NEW q \in Processes \ {p}
          PROVE  proc'[q] \in RunType /\ Kept(q)
      <3>1. proc'[q] \in {proc[q], Overtaken(proc[q])} /\ proc[q] \in RunType
        BY <1>1, <2>1
      <3>2. QED
        BY <3>1, ZenonT(60) DEF Overtaken, Kept, RunType
    <2>3. proc'[p] \in RunType /\ Fits(p, proc'[p])
      BY <2>1, EndFits, Zenon
    <2>4. proc' \in [Processes -> RunType']
      BY <1>1, <1>2, <2>1, <2>2, <2>3, TypesGrow
    <2>5. RunsTyped'
      BY <1>2, <2>2, <2>3, <2>4, RunsStep DEF Typed
    <2>6. QED
      BY <1>3, <2>5 DEF Typed
  <1>6. QED
    BY <1>4, <1>5

\* A temporary file is opened, and filled.
LEMMA TypedOpen ==
    ASSUME Typed, NEW p \in Processes, OpenTmp(p)
    PROVE  Typed'
  <1>1. /\ proc \in [Processes -> RunType] /\ proc[p] \in RunType /\ Fits(p, proc[p])
        /\ issued \in Nat
    BY OwnRun
  <1> DEFINE r == [proc[p] EXCEPT !.pc = "fill", !.fd = "tmp"]
  <1>2. Becomes(p, r) /\ r \in RunType
    BY <1>1, ZenonT(60) DEF OpenTmp, Becomes, RunType, Pcs
  <1>3. Fits(p, r)
    BY <1>1 DEF OpenTmp, At, Fits, RunType
  <1>4. p \in Running /\ issued' = issued
    BY DEF OpenTmp, At, Running
  <1>5. RunsTyped'
    BY <1>1, <1>2, <1>3, <1>4, RunStep, TypesGrow DEF Typed
  <1>6. SharedTyped'
    <2>1. tmp' = [tmp EXCEPT ![proc[p].file] = Torn[proc[p].file]]
          /\ proc[p].file \in {"profiles", "credentials"}
      BY <1>1, RunTyped DEF OpenTmp
    <2>2. Torn.profiles \in ProfilesType /\ WellFormed(Torn.profiles)
          /\ Torn.credentials \in CredsType
      BY <1>1, BlankTyped, EmptyFits DEF Torn, TornProfiles
    <2>3. tmp' \in FilesType /\ WellFormed(tmp'.profiles)
      BY <2>1, <2>2 DEF FilesType, Typed, SharedTyped
    <2>4. UNCHANGED <<live, locks, config, issued, ghosts>>
      BY DEF OpenTmp
    <2>5. QED
      BY <2>3, <2>4, TypesGrow DEF Typed, SharedTyped, locks, ghosts, Clusters, Keys, Processes,
                                   Writers, WellFormed, Stored
  <1>7. QED
    BY <1>5, <1>6 DEF Typed

\* The shared state is of its types when the files are.
LEMMA FilesStep ==
    ASSUME SharedTyped, UNCHANGED <<locks, config, issued, orderly>>,
           live' \in FilesType, tmp' \in FilesType,
           WellFormed(live'.profiles), WellFormed(tmp'.profiles),
           wiped' \in BOOLEAN, replaced' \subseteq 1..issued
    PROVE  SharedTyped'
  BY DEF SharedTyped, locks, Clusters, Keys, Processes, Writers, WellFormed, Stored, FilesType,
         ProfilesType, CredsType

\* The two files are of their types.
LEMMA FilesTyped ==
    ASSUME Typed
    PROVE  /\ live.profiles \in ProfilesType /\ live.credentials \in CredsType
           /\ tmp.profiles \in ProfilesType /\ tmp.credentials \in CredsType
           /\ WellFormed(live.profiles) /\ WellFormed(tmp.profiles)
  BY DEF Typed, SharedTyped, FilesType

\* A torn file and an absent one have no entry to be wrong about.
LEMMA TornFits ==
    ASSUME issued \in Nat
    PROVE  /\ Torn.profiles \in ProfilesType /\ WellFormed(Torn.profiles)
           /\ Torn.credentials \in CredsType
           /\ Absent.profiles \in ProfilesType /\ WellFormed(Absent.profiles)
           /\ Absent.credentials \in CredsType
  BY BlankTyped, EmptyFits DEF Torn, TornProfiles, Absent, NoProfiles

\* Replacing one of the two files.
LEMMA PutFile ==
    ASSUME Typed, NEW files0 \in {live, tmp}, NEW f \in {"profiles", "credentials"}, NEW c,
           IF f = "profiles" THEN c \in ProfilesType /\ WellFormed(c) ELSE c \in CredsType
    PROVE  /\ [files0 EXCEPT ![f] = c] \in FilesType
           /\ WellFormed([files0 EXCEPT ![f] = c].profiles)
  BY DEF Typed, SharedTyped, FilesType

\* The temporary file, or what became of it, is written.
LEMMA TypedFill ==
    ASSUME Typed, NEW p \in Processes, FillTmp(p)
    PROVE  Typed'
  <1>1. /\ proc \in [Processes -> RunType] /\ proc[p] \in RunType /\ Fits(p, proc[p])
        /\ issued \in Nat
    BY OwnRun
  <1>2. proc[p].pc = "fill" /\ p \in Running
    BY DEF FillTmp, At, Running
  <1> DEFINE f == proc[p].file
  <1>3. /\ f \in {"profiles", "credentials"} /\ WellFormed(proc[p].new)
        /\ proc[p].new \in ProfilesType /\ proc[p].creds \in CredsType
    BY <1>1, <1>2, RunTyped DEF Fits
  <1>4. RunsTyped'
    <2> DEFINE r == [proc[p] EXCEPT !.pc = "rename"]
    <2>1. Becomes(p, r) /\ r \in RunType
      BY <1>1, RunFields, Zenon DEF FillTmp, Becomes, Pcs
    <2>2. Fits(p, r) /\ issued' = issued
      BY <1>1 DEF FillTmp, At, Fits, RunType
    <2>3. QED
      BY <1>1, <1>2, <2>1, <2>2, RunStep, TypesGrow DEF Typed
  <1>5. SharedTyped'
    <2> DEFINE Written(c) == IF f = "profiles" THEN c \in ProfilesType /\ WellFormed(c)
                             ELSE c \in CredsType
               text == IF f = "profiles" THEN proc[p].new ELSE proc[p].creds
    <2>1. \A c \in {text, Torn[f]} : Written(c)
      BY <1>1, <1>3, TornFits
    <2>2. \/ UNCHANGED files
          \/ UNCHANGED live /\ \E c \in {text, Torn[f]} : tmp' = [tmp EXCEPT ![f] = c]
          \/ UNCHANGED tmp /\ \E c \in {text, Torn[f]} : live' = [live EXCEPT ![f] = c]
      BY DEF FillTmp, files
    <2>3. /\ live' \in FilesType /\ tmp' \in FilesType
          /\ WellFormed(live'.profiles) /\ WellFormed(tmp'.profiles)
      <3>1. \A c \in {text, Torn[f]} :
               /\ [tmp EXCEPT ![f] = c] \in FilesType /\ WellFormed([tmp EXCEPT ![f] = c].profiles)
               /\ [live EXCEPT ![f] = c] \in FilesType
               /\ WellFormed([live EXCEPT ![f] = c].profiles)
        BY <1>3, <2>1, PutFile
      <3>2. live \in FilesType /\ tmp \in FilesType
            /\ WellFormed(live.profiles) /\ WellFormed(tmp.profiles)
        BY DEF Typed, SharedTyped
      <3>3. QED
        BY <2>2, <3>1, <3>2, Zenon DEF files
    <2>4. UNCHANGED <<locks, config, issued, ghosts>>
      BY DEF FillTmp
    <2>5. QED
      BY <2>3, <2>4, FilesStep DEF Typed, SharedTyped, ghosts
  <1>6. QED
    BY <1>4, <1>5 DEF Typed

\* Of the runs that write the replaced file only the open file changes.
LEMMA MovedKeeps ==
    ASSUME proc \in [Processes -> RunType], NEW f, NEW by \in Processes, NEW q \in Processes
    PROVE  /\ Moved(f, by)[q] \in RunType
           /\ \E fd \in {"none", "tmp", "live", "gone"} : Moved(f, by)[q] = [proc[q] EXCEPT !.fd = fd]
           /\ q = by \/ proc[q].pc # "fill" => Moved(f, by)[q] = proc[q]
  <1>1. proc[q] \in RunType /\ proc[q].fd \in {"none", "tmp", "live", "gone"}
    BY DEF RunType
  <1>2. proc[q] = [proc[q] EXCEPT !.fd = proc[q].fd]
    BY <1>1 DEF RunType
  <1>3. CASE q # by /\ proc[q].pc = "fill" /\ proc[q].file = f
    <2> DEFINE fd == IF proc[q].fd = "tmp" /\ by \in Writers THEN "live"
                     ELSE IF proc[q].fd = "live" THEN "gone" ELSE proc[q].fd
    <2>1. Moved(f, by)[q] = [proc[q] EXCEPT !.fd = fd]
      BY <1>3 DEF Moved
    <2>2. fd \in {"none", "tmp", "live", "gone"}
      BY <1>1
    <2> HIDE DEF fd
    <2>3. [proc[q] EXCEPT !.fd = fd] \in RunType
      BY <1>1, <2>2, RunFields, Zenon
    <2>4. QED
      BY <1>3, <2>1, <2>2, <2>3
  <1>4. CASE ~(q # by /\ proc[q].pc = "fill" /\ proc[q].file = f)
    BY <1>1, <1>2, <1>4 DEF Moved
  <1>5. QED
    BY <1>3, <1>4

\* No field of another run but its open file changes when a file is replaced.
LEMMA MovedKept ==
    ASSUME proc \in [Processes -> RunType], NEW f, NEW by \in Processes, NEW q \in Processes,
           proc'[q] = Moved(f, by)[q]
    PROVE  Kept(q) /\ proc'[q] \in RunType
  <1>1. proc[q] \in RunType
    OBVIOUS
  <1>2. PICK fd \in {"none", "tmp", "live", "gone"} : proc'[q] = [proc[q] EXCEPT !.fd = fd]
    BY MovedKeeps
  <1>3. QED
    BY <1>1, <1>2, MovedKeeps DEF Kept, RunType

\* A temporary file is renamed into place.
LEMMA TypedRename ==
    ASSUME Typed, NEW p \in Processes, RenameTmp(p)
    PROVE  Typed'
  <1>1. /\ proc \in [Processes -> RunType] /\ proc[p] \in RunType /\ Fits(p, proc[p])
        /\ issued \in Nat
    BY OwnRun
  <1>2. proc[p].pc = "rename" /\ p \in Running /\ proc[p].holds \in BOOLEAN
    BY <1>1, RunTyped DEF RenameTmp, At, Running
  <1> DEFINE f == proc[p].file
  <1>3. f \in {"profiles", "credentials"}
    BY <1>1, RunTyped
  <1>4. \A w \in BOOLEAN : Leaving(proc[p], w) \in RunType /\ Fits(p, Leaving(proc[p], w))
    BY <1>2, EndFits, Zenon DEF Leaving
  <1>5. CASE tmp[f].state = "absent"
    <2>1. Becomes(p, Leaving(proc[p], FALSE)) /\ UNCHANGED <<files, wiped>>
      BY <1>5, Zenon DEF RenameTmp, Becomes
    <2>2. QED
      BY <1>1, <1>2, <1>4, <2>1, QuietStep, TypesGrow, OwnRun, Zenon DEF RenameTmp, locks
  <1>6. CASE tmp[f].state # "absent"
    <2>1. /\ live' = [live EXCEPT ![f] = tmp[f]] /\ tmp' = [tmp EXCEPT ![f] = Absent[f]]
          /\ proc' = [Moved(f, p) EXCEPT ![p] = IF After(p) = "unlock" THEN Leaving(@, TRUE)
                                                ELSE [@ EXCEPT !.pc = After(p)]]
          /\ wiped' \in BOOLEAN
      BY <1>6, Zenon DEF RenameTmp, Typed, SharedTyped
    <2>2. UNCHANGED <<locks, config, issued, orderly, replaced>>
      BY DEF RenameTmp
    <2>3. /\ live' \in FilesType /\ tmp' \in FilesType
          /\ WellFormed(live'.profiles) /\ WellFormed(tmp'.profiles)
      BY <1>1, <1>3, <2>1, FilesTyped, TornFits, PutFile, Zenon
    <2>4. SharedTyped'
      BY <2>1, <2>2, <2>3, FilesStep DEF Typed, SharedTyped
    <2>5. \A q \in Processes : Moved(f, p)[q] \in RunType
      BY <1>1, MovedKeeps, Zenon
    <2>6. proc'[p] = IF After(p) = "unlock" THEN Leaving(proc[p], TRUE)
                     ELSE [proc[p] EXCEPT !.pc = After(p)]
      BY <1>1, <2>1, MovedKeeps DEF Moved
    <2>7. \A q \in Processes \ {p} : proc'[q] = Moved(f, p)[q]
      BY <2>1 DEF Moved
    <2>8. proc'[p] \in RunType /\ Fits(p, proc'[p])
      <3>1. CASE After(p) = "unlock"
        BY <1>4, <2>6, <3>1, Zenon
      <3>2. CASE After(p) = "registry" /\ p \in Desktops
        <4>1. [proc[p] EXCEPT !.pc = "registry"] \in RunType
          BY <1>1, RunFields, Zenon DEF Pcs
        <4>2. Fits(p, [proc[p] EXCEPT !.pc = "registry"])
          BY <1>1, <1>2, <3>2, SharedProfilesAssumption DEF Fits, RunType, Writers
        <4>3. QED
          BY <2>6, <3>2, <4>1, <4>2
      <3>3. CASE After(p) = "mirror" /\ p \in Clis \cup Engines
        <4>1. [proc[p] EXCEPT !.pc = "mirror"] \in RunType
          BY <1>1, RunFields, Zenon DEF Pcs
        <4>2. Fits(p, [proc[p] EXCEPT !.pc = "mirror"])
          BY <1>1, <1>2, <3>3, SharedProfilesAssumption DEF Fits, RunType, Writers
        <4>3. QED
          BY <2>6, <3>3, <4>1, <4>2
      <3>4. p \in Clis \cup Engines \cup Desktops
        BY <1>1, <1>2 DEF Fits, Processes, Writers
      <3>5. \/ After(p) = "unlock"
            \/ After(p) = "registry" /\ p \in Desktops
            \/ After(p) = "mirror" /\ p \in Clis \cup Engines
        <4>1. CASE p \in Desktops
          BY <1>1, <4>1 DEF Fits, After
        <4>2. CASE p \notin Desktops
          BY <1>3, <3>4, <4>2 DEF After
        <4>3. QED
          BY <4>1, <4>2
      <3>6. QED
        BY <3>1, <3>2, <3>3, <3>5
    <2>9. proc' \in [Processes -> RunType'] /\ \A q \in Processes \ {p} : Kept(q)
      BY <1>1, <2>1, <2>2, <2>5, <2>7, <2>8, MovedKept, TypesGrow, ZenonT(60) DEF Moved
    <2>10. RunsTyped'
      BY <1>2, <2>8, <2>9, RunsStep DEF Typed
    <2>11. QED
      BY <2>4, <2>10 DEF Typed
  <1>7. QED
    BY <1>5, <1>6

\* The CLI and the engine read profiles.json and change one profile of it.
LEMMA TypedEdit ==
    ASSUME Typed, NEW p \in Clis \cup Engines, proc[p].pc \in {"read", "legacy"},
           NEW base \in ProfilesType, WellFormed(base), base.state = "whole", Edit(p, base),
           UNCHANGED <<files, locks, config, issued, ghosts>>
    PROVE  Typed'
  <1>1. /\ proc \in [Processes -> RunType] /\ proc[p] \in RunType /\ Fits(p, proc[p])
        /\ issued \in Nat /\ orderly \in BOOLEAN
    BY OwnRun, Zenon DEF Processes, Writers
  <1>2. proc[p].op # "none" /\ proc[p].id \in Ids /\ p \in Processes /\ p \notin Desktops
    BY <1>1, SharedProfilesAssumption DEF Fits, Processes, Writers
  <1>3. ASSUME NEW r \in RunType, Becomes(p, r), Fits(p, r)
        PROVE  Typed'
    BY <1>1, <1>2, <1>3, QuietStep, TypesGrow DEF locks, ghosts
  <1>4. CASE Becomes(p, Leaving(proc[p], FALSE))
    BY <1>1, <1>2, <1>3, <1>4, EndFits, RunTyped, Zenon DEF Leaving
  <1>5. ASSUME NEW new \in Edited(p, base), Becomes(p, [proc[p] EXCEPT !.pc = "open", !.new = new])
        PROVE  Typed'
    <2> DEFINE r == [proc[p] EXCEPT !.pc = "open", !.new = new]
    <2>1. new \in ProfilesType /\ WellFormed(new)
      BY <1>2, EditedFits
    <2>2. r \in RunType
      BY <1>1, <2>1, Zenon DEF RunType, Pcs
    <2>3. Fits(p, r)
      BY <1>1, <1>2, <2>1, SharedProfilesAssumption DEF Fits, RunType, Writers
    <2>4. QED
      BY <1>3, <1>5, <2>2, <2>3
  <1>6. \/ Becomes(p, Leaving(proc[p], FALSE))
        \/ \E new \in Edited(p, base) : Becomes(p, [proc[p] EXCEPT !.pc = "open", !.new = new])
    BY <1>1, <1>2, Zenon DEF Edit, Becomes
  <1>7. QED
    BY <1>4, <1>5, <1>6, Zenon

\* The CLI and the engine read profiles.json and change a profile.
LEMMA TypedRead ==
    ASSUME Typed, NEW p \in Processes, ReadProfiles(p)
    PROVE  Typed'
  <1>1. p \in Clis \cup Engines /\ UNCHANGED <<files, locks, config, issued, ghosts>>
    BY DEF ReadProfiles
  <1>2. /\ live.profiles \in ProfilesType /\ WellFormed(live.profiles)
        /\ EmptyProfiles \in ProfilesType /\ WellFormed(EmptyProfiles)
        /\ EmptyProfiles.state = "whole"
        /\ Migrated \in ProfilesType /\ WellFormed(Migrated) /\ Migrated.state = "whole"
    BY FilesTyped, EmptyFits, MigratedFits DEF EmptyProfiles, Typed
  <1>3. CASE At(p, "read") /\ p \in Clis /\ proc' = [proc EXCEPT ![p].pc = "legacy"]
    <2>1. /\ proc \in [Processes -> RunType] /\ proc[p] \in RunType /\ Fits(p, proc[p])
          /\ issued \in Nat /\ orderly \in BOOLEAN
      BY OwnRun
    <2> DEFINE r == [proc[p] EXCEPT !.pc = "legacy"]
    <2>2. r \in RunType /\ Becomes(p, r)
      BY <1>3, <2>1, RunFields, Zenon DEF Pcs, Becomes
    <2>3. Fits(p, r) /\ p \notin Desktops
      BY <1>3, <2>1, SharedProfilesAssumption DEF At, Fits, RunType, Writers
    <2>4. QED
      BY <1>1, <2>1, <2>2, <2>3, QuietStep, TypesGrow DEF locks, ghosts
  <1>4. CASE \E base \in {live.profiles, EmptyProfiles, Migrated} :
                base.state = "whole" /\ Edit(p, base) /\ proc[p].pc \in {"read", "legacy"}
    BY <1>1, <1>2, <1>4, TypedEdit
  <1>5. QED
    BY <1>1, <1>3, <1>4, <1>2 DEF ReadProfiles, At

\* The active profile is copied to credentials.json.
LEMMA TypedMirror ==
    ASSUME Typed, NEW p \in Processes, MirrorOfCli(p) \/ MirrorOfEngine(p)
    PROVE  Typed'
  <1>1. /\ proc \in [Processes -> RunType] /\ proc[p] \in RunType /\ Fits(p, proc[p])
        /\ issued \in Nat /\ orderly \in BOOLEAN
    BY OwnRun
  <1>2. /\ UNCHANGED <<files, locks, config, issued, ghosts>> /\ proc[p].pc = "mirror"
        /\ p \in Clis \cup Engines /\ p \notin Desktops
    BY SharedProfilesAssumption DEF MirrorOfCli, MirrorOfEngine, At
  <1> DEFINE key == ActiveKey(proc[p].new)
             existing == IF live.credentials.state = "whole" THEN live.credentials ELSE EmptyCreds
  <1>3. key \in Keys \cup {None}
    BY <1>1, RunTyped, SMTT(40) DEF ActiveKey, ProfilesType
  <1>4. PICK creds \in {[existing EXCEPT !.mirror = key], Creds("whole", key, 0, 0)}, wrote \in BOOLEAN,
             pc \in {"open", "unlock", "unlink"} :
           proc' = [proc EXCEPT ![p].file = "credentials", ![p].creds = creds,
                                ![p].wrote = wrote, ![p].pc = pc]
    BY Zenon DEF MirrorOfCli, MirrorOfEngine
  <1> HIDE DEF key
  <1>5. creds \in CredsType
    <2>1. existing \in CredsType
      BY <1>1, FilesTyped, BlankTyped
    <2>2. QED
      BY <1>1, <1>3, <2>1 DEF CredsType, Creds
  <1> DEFINE r == [proc[p] EXCEPT !.file = "credentials", !.creds = creds, !.wrote = wrote, !.pc = pc]
  <1>6. Becomes(p, r)
    BY <1>1, <1>4, Zenon DEF Becomes
  <1>7. r \in RunType
    BY <1>1, <1>5, Zenon DEF RunType, Pcs
  <1>8. Fits(p, r)
    BY <1>1, <1>2, SharedProfilesAssumption DEF Fits, RunType, Writers
  <1>9. QED
    BY <1>1, <1>2, <1>6, <1>7, <1>8, QuietStep, TypesGrow DEF locks, ghosts

\* credentials.json is removed.
LEMMA TypedUnlink ==
    ASSUME Typed, NEW p \in Processes, Unlink(p)
    PROVE  Typed'
  <1>1. /\ proc \in [Processes -> RunType] /\ proc[p] \in RunType /\ Fits(p, proc[p])
        /\ issued \in Nat
    BY OwnRun
  <1>2. p \in Running /\ proc[p].holds \in BOOLEAN
        /\ UNCHANGED <<tmp, locks, config, issued, orderly, replaced>>
    BY <1>1, RunTyped DEF Unlink, At, Running
  <1>3. SharedTyped'
    <2>1. live' = [live EXCEPT !["credentials"] = NoCreds] /\ wiped' \in BOOLEAN
      BY DEF Unlink, Typed, SharedTyped
    <2>2. live' \in FilesType /\ WellFormed(live'.profiles)
      BY <1>1, <2>1, BlankTyped, PutFile, Zenon
    <2>3. QED
      BY <1>2, <2>1, <2>2, FilesStep DEF Typed, SharedTyped
  <1>4. proc'[p] \in RunType /\ Fits(p, proc'[p])
    BY <1>1, <1>2, EndFits, Zenon DEF Unlink, Leaving
  <1>5. ASSUME NEW q \in Processes \ {p}
        PROVE  proc'[q] \in RunType /\ Kept(q)
    <2>1. proc[q] \in RunType /\ proc'[q] \in {proc[q], [proc[q] EXCEPT !.fd = "gone"]}
      BY <1>1 DEF Unlink
    <2>2. [proc[q] EXCEPT !.fd = "gone"] \in RunType
      BY <2>1, RunFields, Zenon
    <2>3. QED
      BY <2>1, <2>2 DEF Kept, RunType
  <1>6. proc' \in [Processes -> RunType']
    BY <1>1, <1>2, <1>4, <1>5, TypesGrow, Zenon DEF Unlink
  <1>7. QED
    BY <1>2, <1>3, <1>4, <1>5, <1>6, RunsStep DEF Typed

\* The desktop reads and saves its registry, and copies it.
LEMMA RegistryStep ==
    ASSUME Typed, NEW p \in Desktops, p \in Running,
           UNCHANGED <<files, locks, issued, ghosts>>,
           config' \in [clusters : [Ids -> Keys \cup {None}], selected : Ids \cup {None}],
           config'.selected \in Clusters' \cup {None},
           NEW r \in RunType, Becomes(p, r), Fits(p, r)
    PROVE  Typed'
  <1>1. issued \in Nat /\ p \in Processes
    BY DEF Typed, SharedTyped, Processes, Writers
  <1>2. RunsTyped'
    BY <1>1, RunStep, TypesGrow DEF Typed
  <1>3. SharedTyped'
    BY DEF Typed, SharedTyped, files, locks, ghosts, FilesType, ProfilesType, CredsType, Keys,
           Processes, Writers, WellFormed, Stored
  <1>4. QED
    BY <1>2, <1>3 DEF Typed

\* The registry is of its type.
LEMMA RegistryTyped ==
    ASSUME Typed
    PROVE  /\ config \in [clusters : [Ids -> Keys \cup {None}], selected : Ids \cup {None}]
           /\ config.clusters \in [Ids -> Keys \cup {None}]
           /\ config.selected \in Clusters \cup {None}
  BY DEF Typed, SharedTyped

\* The desktop reads and changes its registry.
LEMMA TypedRegistry ==
    ASSUME Typed, NEW p \in Processes, ReadRegistry(p) \/ SaveRegistry(p) \/ PruneRegistry(p)
    PROVE  Typed'
  <1>1. /\ proc \in [Processes -> RunType] /\ proc[p] \in RunType /\ Fits(p, proc[p])
        /\ issued \in Nat
    BY OwnRun
  <1>2. p \in Desktops /\ p \in Running /\ UNCHANGED <<files, locks, issued, ghosts>>
    BY DEF ReadRegistry, SaveRegistry, PruneRegistry, At, Running
  <1>3. PICK pc \in {"change", "copy"} : proc' = [proc EXCEPT ![p].pc = pc]
    BY DEF ReadRegistry, SaveRegistry, PruneRegistry
  <1> DEFINE r == [proc[p] EXCEPT !.pc = pc]
  <1>4. Becomes(p, r) /\ r \in RunType
    BY <1>1, <1>3, RunFields, Zenon DEF Becomes, Pcs
  <1>5. Fits(p, r)
    BY <1>1, <1>2, SharedProfilesAssumption DEF Fits, RunType, Writers
  <1> DEFINE ConfigFits ==
                /\ config' \in [clusters : [Ids -> Keys \cup {None}], selected : Ids \cup {None}]
                /\ config'.selected \in Clusters' \cup {None}
  <1>6. ConfigFits
    <2>1. CASE ReadRegistry(p)
      <3>1. CASE config' = Registry(live.profiles.names, live.profiles.active)
        BY <3>1, FilesTyped DEF Registry, ProfilesType, WellFormed, Stored, Clusters
      <3>2. CASE config' = config
        BY <3>2, RegistryTyped DEF Clusters
      <3>3. QED
        BY <2>1, <3>1, <3>2 DEF ReadRegistry
    <2>2. CASE SaveRegistry(p)
      <3>1. ASSUME NEW i \in Ids, config' = Registry([config.clusters EXCEPT ![i] = p], i)
            PROVE  ConfigFits
        <4>1. p \in Keys /\ p # None
          BY <1>2, SharedProfilesAssumption DEF Keys
        <4>2. QED
          BY <3>1, <4>1, RegistryTyped DEF Registry, Clusters
      <3>2. ASSUME NEW i \in Clusters \cup {None}, config' = [config EXCEPT !.selected = i]
            PROVE  ConfigFits
        BY <3>2, RegistryTyped DEF Clusters
      <3>3. ASSUME NEW i \in Clusters, NEW s \in (Clusters \ {i}) \cup {None},
                   config' = Registry([config.clusters EXCEPT ![i] = None], s)
            PROVE  ConfigFits
        BY <3>3, RegistryTyped DEF Registry, Clusters
      <3>4. \/ \E i \in Ids : config' = Registry([config.clusters EXCEPT ![i] = p], i)
            \/ \E i \in Clusters \cup {None} : config' = [config EXCEPT !.selected = i]
            \/ \E i \in Clusters : \E s \in (Clusters \ {i}) \cup {None} :
                  config' = Registry([config.clusters EXCEPT ![i] = None], s)
        <4>1. \A i \in Clusters : \A s :
                 s \in (IF config.selected # i THEN {config.selected}
                        ELSE IF Clusters \ {i} = {} THEN {None} ELSE Clusters \ {i})
                 => s \in (Clusters \ {i}) \cup {None}
          BY RegistryTyped
        <4>2. QED
          BY <2>2, <4>1, Zenon DEF SaveRegistry
      <3>5. QED
        BY <3>1, <3>2, <3>3, <3>4, Zenon
    <2>3. CASE PruneRegistry(p)
      BY <2>3, RegistryTyped DEF PruneRegistry, Registry, Clusters
    <2>4. QED
      BY <2>1, <2>2, <2>3
  <1>7. QED
    BY <1>2, <1>4, <1>5, <1>6, RegistryStep

\* The desktop finds the clusters that are gone, and prepares its copy.
LEMMA TypedDesktop ==
    ASSUME Typed, NEW p \in Processes, FindGone(p) \/ CopyRegistry(p)
    PROVE  Typed'
  <1>1. /\ proc \in [Processes -> RunType] /\ proc[p] \in RunType /\ Fits(p, proc[p])
        /\ issued \in Nat /\ orderly \in BOOLEAN
    BY OwnRun
  <1>2. p \in Desktops /\ p \in Running /\ UNCHANGED <<files, locks, config, issued, wiped, replaced>>
        /\ orderly' \in BOOLEAN
    BY <1>1, Zenon DEF FindGone, CopyRegistry, At, Running, ghosts
  <1>3. ASSUME NEW r \in RunType, Becomes(p, r), Fits(p, r)
        PROVE  Typed'
    BY <1>1, <1>2, <1>3, QuietStep, TypesGrow DEF locks
  <1>4. CASE FindGone(p)
    <2>1. PICK gone \in SUBSET Ids, pc \in {"unlock", "open", "registry"} :
             proc' = [proc EXCEPT ![p].gone = gone, ![p].new = Pruned(live.profiles, gone),
                                  ![p].pc = pc]
      BY <1>4, SharedProfilesAssumption, Zenon DEF FindGone
    <2> DEFINE new == Pruned(live.profiles, gone)
               r == [proc[p] EXCEPT !.gone = gone, !.new = new, !.pc = pc]
    <2>2. Becomes(p, r)
      BY <1>1, <2>1, Zenon DEF Becomes
    <2>3. new \in ProfilesType /\ WellFormed(new)
      BY FilesTyped, PrunedFits
    <2> HIDE DEF new
    <2>4. r \in RunType
      BY <1>1, <2>3, Zenon DEF RunType, Pcs
    <2>5. proc[p].op # "none"
      BY <1>4, Zenon DEF FindGone
    <2>6. Fits(p, r)
      BY <1>1, <1>2, <2>3, <2>5, SharedProfilesAssumption DEF Fits, RunType, Writers
    <2>7. QED
      BY <1>3, <2>2, <2>4, <2>6
  <1>5. CASE CopyRegistry(p)
    <2> DEFINE new == Mirrored(BaseOfCopy)
               r == [proc[p] EXCEPT !.op = "copy", !.new = new, !.pc = "open"]
    <2>1. Becomes(p, r)
      BY <1>1, <1>5, Zenon DEF CopyRegistry, Becomes
    <2>2. new \in ProfilesType /\ WellFormed(new)
      BY MirroredFits DEF Typed
    <2> HIDE DEF new
    <2>3. r \in RunType
      BY <1>1, <2>2, RunGoes, PlacesTyped, Zenon
    <2>4. Fits(p, r)
      BY <1>1, <1>2, <2>2, SharedProfilesAssumption DEF Fits, RunType, Writers
    <2>5. QED
      BY <1>3, <2>1, <2>3, <2>4
  <1>6. QED
    BY <1>4, <1>5

\* The account: a run of the helper goes on with one of its operations.
LEMMA AccountStep ==
    ASSUME Typed, NEW p \in Accounts, p \in Running,
           UNCHANGED <<files, locks, config, ghosts>>, issued' \in {issued, Fresh},
           NEW r \in RunType', Becomes(p, r), r.file = proc[p].file,
           r.op \in {"login", "pending", "commit", "refresh", "signout", "failed"},
           r.pc \in {"flock", "lock", "read", "browser", "exchange", "put", "unlock"}
    PROVE  Typed'
  <1>1. p \in Processes /\ Fits(p, proc[p]) /\ orderly \in BOOLEAN
    BY OwnRun DEF Processes
  <1>2. Fits(p, r)
    BY <1>1, SharedProfilesAssumption DEF Fits, Writers
  <1>3. QED
    BY <1>1, <1>2, QuietStep, SharedProfilesAssumption DEF locks, ghosts, Writers

\* Its operation is known while it has not ended.
LEMMA AccountRun ==
    ASSUME Typed, NEW p \in Accounts
    PROVE  /\ proc \in [Processes -> RunType] /\ proc[p] \in RunType /\ p \in Processes
           /\ issued \in Nat /\ live.credentials \in CredsType
           /\ proc[p].pc = "read" => proc[p].file = "profiles"
  BY OwnRun, FilesTyped, Zenon DEF Processes, Fits

\* The helper reads credentials.json to sign in or out.
LEMMA TypedReading ==
    ASSUME Typed, NEW p \in Processes, BeginLogin(p) \/ PollLogin(p) \/ SignOut(p) \/ CommitLogin(p)
    PROVE  Typed'
  <1>1. p \in Accounts /\ UNCHANGED <<files, locks, config, ghosts>> /\ p \in Running
    BY DEF BeginLogin, PollLogin, SignOut, CommitLogin, Reading, At, Running
  <1>2. /\ proc \in [Processes -> RunType] /\ proc[p] \in RunType /\ p \in Processes
        /\ issued \in Nat /\ live.credentials \in CredsType
    BY <1>1, AccountRun
  <1>3. ASSUME NEW r \in RunType', Becomes(p, r), issued' \in {issued, Fresh}, r.file = proc[p].file,
               r.op \in {"login", "pending", "commit", "refresh", "signout", "failed"},
               r.pc \in {"flock", "lock", "read", "browser", "exchange", "put", "unlock"}
        PROVE  Typed'
    BY <1>1, <1>3, AccountStep
  <1>4. CASE Fail(p)
    <2> DEFINE r == [proc[p] EXCEPT !.op = "failed", !.pc = "unlock"]
    <2>1. Becomes(p, r) /\ issued' = issued
      BY <1>2, <1>4, Zenon DEF Fail, Becomes
    <2>2. r.file = proc[p].file /\ r.op = "failed" /\ r.pc = "unlock"
      BY <1>2 DEF RunType
    <2>3. r \in RunType
      BY <1>2, RunGoes, PlacesTyped, Zenon
    <2>4. QED
      BY <1>2, <1>3, <2>1, <2>2, <2>3, TypesGrow, Zenon
  <1>5. CASE Goto(p, "unlock") /\ proc[p].op = "pending"
    <2> DEFINE r == [proc[p] EXCEPT !.pc = "unlock"]
    <2>1. Becomes(p, r) /\ issued' = issued /\ r \in RunType
      BY <1>2, <1>5 DEF Goto, Becomes, RunType, Pcs, Ops
    <2>2. r.file = proc[p].file /\ r.op = "pending" /\ r.pc = "unlock"
      BY <1>2, <1>5 DEF RunType
    <2>3. QED
      BY <1>2, <1>3, <2>1, <2>2, TypesGrow, Zenon
  <1>6. CASE /\ issued' = issued
             /\ proc' = [proc EXCEPT ![p].op = "pending", ![p].pc = "unlock",
                                     ![p].generation = Account.generation]
    <2> DEFINE r == [proc[p] EXCEPT !.op = "pending", !.pc = "unlock",
                                    !.generation = Account.generation]
    <2>1. Becomes(p, r)
      BY <1>2, <1>6, Zenon DEF Becomes
    <2>2. Account.generation \in 0..issued
      BY <1>2 DEF Account, CredsType
    <2>3. r \in RunType
      BY <1>2, <2>2, RunGoes, PlacesTyped, Zenon
    <2>4. r.file = proc[p].file /\ r.op = "pending" /\ r.pc = "unlock"
      BY <1>2 DEF RunType
    <2>5. QED
      BY <1>2, <1>3, <1>6, <2>1, <2>3, <2>4, TypesGrow, Zenon
  <1>7. ASSUME NEW able \in {0, Fresh}, Prepare(p, able), proc[p].op \in {"commit", "signout"}
        PROVE  Typed'
    <2> DEFINE creds == Creds("whole", Account.mirror, able, Fresh)
               r == [proc[p] EXCEPT !.pc = "put", !.creds = creds]
    <2>1. issued' = Fresh /\ Becomes(p, r)
      BY <1>2, <1>7, Zenon DEF Prepare, Becomes
    <2>2. creds \in CredsType' /\ proc[p] \in RunType'
      <3>1. Account.mirror \in Keys \cup {None} /\ {able, Fresh} \subseteq 0..Fresh
        BY <1>2 DEF Account, CredsType, Fresh
      <3>2. QED
        BY <1>2, <2>1, <3>1, TypesGrow DEF Creds, CredsType, Keys, Processes, Writers
    <2> HIDE DEF creds
    <2>3. r \in RunType'
      BY <2>2, Zenon DEF RunType, Pcs
    <2>4. r.file = proc[p].file /\ r.op \in {"commit", "signout"} /\ r.pc = "put"
      BY <1>2, <1>7 DEF RunType
    <2>5. QED
      BY <1>3, <2>1, <2>3, <2>4, Zenon
  <1>8. QED
    BY <1>1, <1>4, <1>5, <1>6, <1>7 DEF BeginLogin, PollLogin, SignOut, CommitLogin, Reading

\* The helper refreshes the account.
LEMMA TypedRefresh ==
    ASSUME Typed, NEW p \in Processes, Refresh(p) \/ Exchange(p) \/ WaitForUser(p)
    PROVE  Typed'
  <1>1. p \in Accounts /\ UNCHANGED <<files, locks, config, ghosts>> /\ p \in Running
    BY OwnRun, Zenon DEF Refresh, Exchange, WaitForUser, Reading, At, Running, Fits, Processes, Writers
  <1>2. /\ proc \in [Processes -> RunType] /\ proc[p] \in RunType /\ p \in Processes
        /\ issued \in Nat /\ live.credentials \in CredsType
    BY <1>1, AccountRun
  <1>3. ASSUME NEW r \in RunType', Becomes(p, r), issued' \in {issued, Fresh}, r.file = proc[p].file,
               r.op \in {"login", "pending", "commit", "refresh", "signout", "failed"},
               r.pc \in {"flock", "lock", "read", "browser", "exchange", "put", "unlock"}
        PROVE  Typed'
    BY <1>1, <1>3, AccountStep
  <1>4. CASE Refresh(p) /\ Fail(p)
    <2> DEFINE r == [proc[p] EXCEPT !.op = "failed", !.pc = "unlock"]
    <2>1. Becomes(p, r) /\ issued' = issued
      BY <1>2, <1>4, Zenon DEF Fail, Becomes
    <2>2. r.file = proc[p].file /\ r.op = "failed" /\ r.pc = "unlock"
      BY <1>2 DEF RunType
    <2>3. r \in RunType
      BY <1>2, RunGoes, PlacesTyped, Zenon
    <2>4. QED
      BY <1>2, <1>3, <2>1, <2>2, <2>3, TypesGrow, Zenon
  <1>5. ASSUME NEW creds \in CredsType', NEW pc \in {"exchange", "put", "unlock"},
               Becomes(p, [proc[p] EXCEPT !.pc = pc, !.creds = creds]),
               issued' \in {issued, Fresh},
               proc[p].op \in {"login", "pending", "commit", "refresh", "signout", "failed"}
        PROVE  Typed'
    <2> DEFINE r == [proc[p] EXCEPT !.pc = pc, !.creds = creds]
    <2>1. proc[p] \in RunType'
      BY <1>2, <1>5, TypesGrow
    <2>2. r \in RunType'
      BY <2>1, Zenon DEF RunType, Pcs
    <2>3. r.file = proc[p].file /\ r.op = proc[p].op /\ r.pc = pc
      BY <1>2 DEF RunType
    <2>4. QED
      BY <1>3, <1>5, <2>2, <2>3, Zenon
  <1>6. proc[p].creds \in CredsType /\ CredsType \subseteq CredsType'
    BY <1>2, RunTyped, TypesGrow DEF Refresh, Exchange, WaitForUser, Goto, Fail, Prepare
  <1>7. CASE Refresh(p) /\ ~Fail(p)
    <2>1. proc[p].op = "refresh"
      BY <1>7, SMTT(40) DEF Refresh, Reading
    <2>2. CASE Goto(p, "unlock")
      <3>1. Becomes(p, [proc[p] EXCEPT !.pc = "unlock", !.creds = proc[p].creds])
        BY <1>2, <2>2, Zenon DEF Goto, Becomes, RunType
      <3>2. QED
        BY <1>5, <1>6, <2>1, <2>2, <3>1, Zenon DEF Goto
    <2>3. CASE Prepare(p, 0)
      <3> DEFINE creds == Creds("whole", Account.mirror, 0, Fresh)
      <3>1. issued' = Fresh /\ Becomes(p, [proc[p] EXCEPT !.pc = "put", !.creds = creds])
        BY <1>2, <2>3, Zenon DEF Prepare, Becomes
      <3>2. creds \in CredsType'
        BY <1>2, <3>1 DEF Account, Fresh, Creds, CredsType, Keys, Processes, Writers
      <3>3. QED
        BY <1>5, <2>1, <3>1, <3>2, Zenon
    <2>4. CASE issued' = issued
               /\ proc' = [proc EXCEPT ![p].creds = Account, ![p].pc = "exchange"]
      <3>1. Becomes(p, [proc[p] EXCEPT !.pc = "exchange", !.creds = Account])
        BY <1>2, <2>4, ZenonT(60) DEF Becomes, RunType
      <3>2. QED
        BY <1>2, <1>5, <1>6, <2>1, <2>4, <3>1, Zenon DEF Account
    <2>5. QED
      BY <1>7, <2>2, <2>3, <2>4 DEF Refresh
  <1>8. CASE Exchange(p)
    <2>1. proc[p].op \in {"login", "pending", "commit", "refresh", "signout", "failed"}
      BY <1>1, <1>8, OwnRun, SMTT(40) DEF Exchange, At, Fits
    <2>2. CASE Goto(p, "unlock")
      <3>1. Becomes(p, [proc[p] EXCEPT !.pc = "unlock", !.creds = proc[p].creds])
        BY <1>2, <2>2, Zenon DEF Goto, Becomes, RunType
      <3>2. QED
        BY <1>5, <1>6, <2>1, <2>2, <3>1, ZenonT(60) DEF Goto
    <2>3. ASSUME NEW able \in {0, Fresh, proc[p].creds.able},
                 NEW generation \in {Fresh, proc[p].creds.generation},
                 issued' = Fresh \/ (issued' = issued /\ Fresh \notin {able, generation}),
                 proc' = [proc EXCEPT ![p].pc = "put", ![p].creds.able = able,
                                      ![p].creds.generation = generation]
          PROVE  Typed'
      <3> DEFINE creds == [proc[p].creds EXCEPT !.able = able, !.generation = generation]
      <3>1. Becomes(p, [proc[p] EXCEPT !.pc = "put", !.creds = creds])
        BY <1>2, <1>6, <2>3, ZenonT(60) DEF Becomes, RunType, CredsType
      <3>2. creds \in CredsType'
        <4>1. {able, generation} \subseteq 0..issued'
          BY <1>2, <1>6, <2>3 DEF CredsType, Fresh
        <4>2. QED
          BY <1>6, <4>1, Zenon DEF CredsType, Keys, Processes, Writers
      <3>3. QED
        BY <1>5, <2>1, <2>3, <3>1, <3>2, Zenon
    <2>4. proc[p].creds.able # Fresh /\ proc[p].creds.generation # Fresh
      BY <1>2, <1>6 DEF CredsType, Fresh
    <2>5. QED
      BY <1>8, <2>2, <2>3, <2>4, Zenon DEF Exchange
  <1>9. CASE WaitForUser(p)
    <2>1. PICK op \in {"pending", "commit"} : proc' = [proc EXCEPT ![p].pc = "flock", ![p].op = op]
      BY <1>9, Zenon DEF WaitForUser
    <2> DEFINE r == [proc[p] EXCEPT !.pc = "flock", !.op = op]
    <2>2. Becomes(p, r) /\ issued' = issued
      BY <1>2, <1>9, <2>1, Zenon DEF WaitForUser, Becomes
    <2>3. op \in Ops /\ "flock" \in Pcs
      BY DEF Ops, Pcs
    <2>4. r \in RunType /\ r.file = proc[p].file /\ r.op = op /\ r.pc = "flock"
      BY <1>2, <2>3, Zenon DEF RunType
    <2>5. QED
      BY <1>2, <1>3, <2>2, <2>4, TypesGrow, Zenon
  <1>10. QED
    BY <1>4, <1>7, <1>8, <1>9

\* A run that is overtaken changes in nothing but that.
LEMMA OvertakenKeeps ==
    ASSUME NEW run \in RunType
    PROVE  /\ Overtaken(run) \in RunType
           /\ \E late \in BOOLEAN : /\ Overtaken(run) = [run EXCEPT !.late = late]
                                    /\ run.late => late
  <1> DEFINE late == run.late \/ run.op \in {"pending", "commit"}
  <1>1. late \in BOOLEAN /\ Overtaken(run) = [run EXCEPT !.late = late] /\ (run.late => late)
    BY DEF Overtaken
  <1> HIDE DEF late
  <1>2. QED
    BY <1>1, RunFields, ZenonT(60)

\* The helper replaces credentials.json.
LEMMA TypedPut ==
    ASSUME Typed, NEW p \in Processes, PutAccount(p)
    PROVE  Typed'
  <1>1. /\ proc \in [Processes -> RunType] /\ proc[p] \in RunType /\ Fits(p, proc[p])
        /\ issued \in Nat
    BY OwnRun
  <1>2. proc[p].pc = "put" /\ p \in Accounts /\ p \in Running
        /\ UNCHANGED <<tmp, locks, config, issued, orderly, wiped>>
    BY <1>1 DEF PutAccount, At, Running, Fits, Processes, Writers
  <1> DEFINE next == proc[p].creds
             moved == Moved("credentials", p)
  <1>3. next \in CredsType /\ live.credentials \in CredsType
    BY <1>1, RunTyped, FilesTyped
  <1>4. SharedTyped'
    <2>1. live' = [live EXCEPT !["credentials"] = next]
      BY DEF PutAccount
    <2>2. live' \in FilesType /\ WellFormed(live'.profiles)
      BY <1>3, <2>1, PutFile, Zenon
    <2>3. replaced' \subseteq 1..issued
      <3>1. replaced' = replaced \cup ({live.credentials.able} \ {next.able, 0})
        BY DEF PutAccount, Account
      <3>2. live.credentials.able \in 0..issued /\ replaced \subseteq 1..issued
        BY <1>3 DEF CredsType, Typed, SharedTyped
      <3>3. live.credentials.able = 0 \/ live.credentials.able \in 1..issued
        BY <1>1, <3>2
      <3>4. QED
        BY <3>1, <3>2, <3>3, Zenon
    <2>4. QED
      BY <1>2, <2>2, <2>3, FilesStep DEF Typed, SharedTyped
  <1>5. moved[p] = proc[p] /\ \A q \in Processes : moved[q] \in RunType
    <2>1. moved[p] = proc[p]
      BY DEF Moved
    <2>2. QED
      BY <1>1, <2>1, MovedKeeps, Zenon
  <1>6. proc'[p] = [proc[p] EXCEPT !.pc = "unlock"]
    BY <1>5 DEF PutAccount
  <1>7. proc'[p] \in RunType /\ Fits(p, proc'[p]) /\ proc'[p].pc = "unlock"
    <2>1. proc'[p] \in RunType /\ proc'[p].pc = "unlock"
      BY <1>1, <1>6 DEF RunType, Pcs
    <2>2. Fits(p, proc'[p])
      BY <1>1, <1>2, <1>6, SharedProfilesAssumption DEF Fits, RunType, Writers
    <2>3. QED
      BY <2>1, <2>2
  <1>8. ASSUME NEW q \in Processes \ {p}
        PROVE  proc'[q] \in RunType /\ Kept(q)
    <2>1. proc'[q] \in {moved[q], Overtaken(moved[q])}
      BY DEF PutAccount
    <2>2. PICK fd \in {"none", "tmp", "live", "gone"} : moved[q] = [proc[q] EXCEPT !.fd = fd]
      BY <1>1, MovedKeeps
    <2> HIDE DEF moved
    <2>3. proc[q] \in RunType /\ moved[q] \in RunType
      BY <1>1, <1>5
    <2>4. CASE proc'[q] = moved[q]
      BY <2>2, <2>3, <2>4 DEF Kept, RunType
    <2>5. CASE proc'[q] = Overtaken(moved[q])
      <3>1. PICK late \in BOOLEAN : proc'[q] = [moved[q] EXCEPT !.late = late]
                                      /\ (moved[q].late => late)
        BY <2>3, <2>5, OvertakenKeeps
      <3>2. proc'[q] \in RunType
        BY <2>3, <2>5, OvertakenKeeps
      <3>3. QED
        BY <2>2, <2>3, <3>1, <3>2 DEF Kept, RunType
    <2>6. QED
      BY <2>1, <2>4, <2>5
  <1>9. proc' \in [Processes -> RunType']
    BY <1>1, <1>2, <1>7, <1>8, TypesGrow DEF PutAccount
  <1>10. QED
    BY <1>2, <1>4, <1>7, <1>8, <1>9, RunsStep DEF Typed

\* All that a process does.
Act(p) ==
    \/ StartCli(p) \/ StartEngine(p) \/ StartDesktop(p) \/ StartAccount(p)
    \/ Step(p) \/ WaitForUser(p) \/ AbandonLogin(p) \/ Die(p)

\* The types hold at the start,
LEMMA TypedInit == Init => Typed
  <1> SUFFICES ASSUME Init PROVE Typed
    OBVIOUS
  <1>1. Absent \in FilesType /\ WellFormed(Absent.profiles) /\ issued \in {0, 1}
    BY TornFits DEF Init, Absent, FilesType
  <1>2. /\ live.profiles \in ProfilesType /\ WellFormed(live.profiles)
        /\ live.credentials \in CredsType
    BY <1>1, BlankTyped, EmptyFits, SharedProfilesAssumption
       DEF Init, NoProfiles, Profiles, NoNames, ProfilesType, WellFormed, Stored, Creds, CredsType, Keys
  <1>3. live \in FilesType
    BY <1>2 DEF Init, FilesType
  <1>4. config \in [clusters : [Ids -> Keys \cup {None}], selected : Ids \cup {None}]
    BY DEF Init, NoNames
  <1>5. SharedTyped
    <2>1. /\ tmp = Absent /\ lock = None /\ flock = None /\ config.selected = None
          /\ orderly = TRUE /\ wiped = FALSE /\ replaced = {}
      BY DEF Init
    <2>2. orderly \in BOOLEAN /\ wiped \in BOOLEAN /\ replaced \subseteq 1..issued
      BY <2>1, Zenon
    <2>3. tmp \in FilesType /\ WellFormed(tmp.profiles) /\ issued \in Nat
      BY <1>1, <2>1
    <2>4. QED
      BY <1>2, <1>3, <1>4, <2>1, <2>2, <2>3 DEF SharedTyped
  <1>6. RunsTyped
    <2>1. Blank \in RunType /\ \A p \in Processes : Fits(p, Blank)
      BY <1>1, BlankTyped DEF Fits, Blank
    <2>2. QED
      BY <2>1, Zenon DEF Init, RunsTyped, Running, Blank
  <1>7. QED
    BY <1>5, <1>6 DEF Typed

\* and every step keeps them.
LEMMA TypedAct ==
    ASSUME Typed, NEW p \in Processes, Act(p)
    PROVE  Typed'
  BY TypedStart, TypedLock, TypedEnd, TypedUnlock, TypedOpen, TypedFill, TypedRename, TypedRead,
     TypedMirror, TypedUnlink, TypedRegistry, TypedDesktop, TypedReading, TypedRefresh, TypedPut
     DEF Act, Step

\* The files, the locks and the runs are of their types, whatever the runs do.
THEOREM SharedProfilesTyped == Spec => []TypeOK
  <1>1. Init => Typed
    BY TypedInit
  <1>2. Typed /\ [Next]_vars => Typed'
    <2> SUFFICES ASSUME Typed, [Next]_vars PROVE Typed'
      OBVIOUS
    <2>1. ASSUME NEW p \in Processes, Act(p) PROVE Typed'
      BY <2>1, TypedAct
    <2>2. CASE RemoveLock
      BY <2>2, TypedRemoveLock
    <2>3. CASE UNCHANGED vars
      BY <2>3 DEF vars, files, locks, ghosts, Typed, SharedTyped, RunsTyped, Running, Clusters,
                  FilesType, RunType, ProfilesType, CredsType, Keys, Processes, Writers, Fits,
                  WellFormed, Stored
    <2>4. QED
      BY <2>1, <2>2, <2>3 DEF Next, Act
  <1>3. QED
    BY <1>1, <1>2, TypedIsTypeOK, PTL DEF Spec

--------------------------------------------------------------------------------
(* The lock keeps the processes apart.                                       *)

\* The actions that change the run of their process alone.
LEMMA OwnRunOnly ==
    ASSUME Typed, NEW p \in Processes, Act(p),
           ~Unlock(p), ~RenameTmp(p), ~Unlink(p), ~PutAccount(p),
           NEW q \in Processes \ {p}
    PROVE  proc'[q] = proc[q]
  <1>1. proc \in [Processes -> RunType]
    BY OwnRun
  <1>2. CASE StartCli(p) \/ StartEngine(p) \/ StartDesktop(p) \/ StartAccount(p)
    BY <1>1, <1>2, Zenon DEF StartCli, StartEngine, StartDesktop, StartAccount, Start
  <1>3. CASE TakeLock(p) \/ GiveUp(p) \/ GoUnlocked(p) \/ SeesStale(p) \/ Steal(p) \/ OpenTmp(p)
             \/ FillTmp(p)
    BY <1>1, <1>3 DEF TakeLock, GiveUp, GoUnlocked, SeesStale, Steal, OpenTmp, FillTmp, Ended
  <1>4. CASE ReadProfiles(p) \/ MirrorOfCli(p) \/ MirrorOfEngine(p)
    BY <1>1, <1>4, Zenon DEF ReadProfiles, Edit, MirrorOfCli, MirrorOfEngine
  <1>5. CASE ReadRegistry(p) \/ SaveRegistry(p) \/ FindGone(p) \/ PruneRegistry(p) \/ CopyRegistry(p)
    BY <1>1, <1>5, Zenon DEF ReadRegistry, SaveRegistry, FindGone, PruneRegistry, CopyRegistry
  <1>6. CASE TakeFlock(p) \/ BeginLogin(p) \/ PollLogin(p) \/ CommitLogin(p) \/ SignOut(p)
    BY <1>1, <1>6 DEF TakeFlock, BeginLogin, PollLogin, CommitLogin, SignOut, Fail, Goto, Prepare
  <1>7. CASE Refresh(p) \/ Exchange(p)
    BY <1>1, <1>7 DEF Refresh, Exchange, Fail, Goto, Prepare
  <1>8. CASE WaitForUser(p) \/ AbandonLogin(p) \/ Die(p)
    BY <1>1, <1>8 DEF WaitForUser, AbandonLogin, Die, Ended
  <1>9. QED
    BY <1>2, <1>3, <1>4, <1>5, <1>6, <1>7, <1>8 DEF Act, Step

\* No step changes the run of another process but for its open file, and for that only
\* where it works on the files.
LEMMA OthersKept ==
    ASSUME Typed, NEW p \in Processes, Act(p), NEW q \in Processes \ {p}
    PROVE  /\ proc[q] \in RunType /\ Kept(q)
           /\ Working(p) \/ proc'[q].fd = proc[q].fd
           /\ proc[q].pc = "fill" \/ proc'[q].fd = proc[q].fd
  <1>1. proc \in [Processes -> RunType] /\ proc[q] \in RunType
    BY OwnRun
  <1>2. CASE ~Unlock(p) /\ ~RenameTmp(p) /\ ~Unlink(p) /\ ~PutAccount(p)
    BY <1>1, <1>2, OwnRunOnly DEF Kept
  <1>3. CASE Unlock(p)
    <2>1. proc'[q] \in {proc[q], Overtaken(proc[q])}
      BY <1>1, <1>3 DEF Unlock
    <2>2. QED
      BY <1>1, <2>1 DEF Overtaken, Kept, RunType
  <1>4. CASE RenameTmp(p)
    <2>1. Working(p)
      BY <1>4 DEF RenameTmp, At, Working
    <2>2. proc'[q] \in {proc[q], Moved(proc[p].file, p)[q]}
      BY <1>1, <1>4, Zenon DEF RenameTmp, Moved
    <2>3. CASE proc'[q] = proc[q]
      BY <1>1, <2>1, <2>3 DEF Kept
    <2>4. CASE proc'[q] = Moved(proc[p].file, p)[q]
      <3>1. Kept(q)
        BY <1>1, <2>4, MovedKept
      <3>2. proc[q].pc # "fill" => proc'[q] = proc[q]
        BY <2>4 DEF Moved
      <3>3. QED
        BY <1>1, <2>1, <3>1, <3>2
    <2>5. QED
      BY <2>2, <2>3, <2>4
  <1>5. CASE Unlink(p)
    <2>1. Working(p)
      BY <1>5 DEF Unlink, At, Working
    <2>2. /\ proc'[q] \in {proc[q], [proc[q] EXCEPT !.fd = "gone"]}
          /\ proc[q].pc # "fill" => proc'[q] = proc[q]
      BY <1>1, <1>5 DEF Unlink
    <2>3. QED
      BY <1>1, <2>1, <2>2 DEF Kept, RunType
  <1>6. CASE PutAccount(p)
    <2>1. Working(p)
      BY <1>6 DEF PutAccount, At, Working
    <2> DEFINE moved == Moved("credentials", p)
    <2>2. proc'[q] \in {moved[q], Overtaken(moved[q])}
      BY <1>6 DEF PutAccount
    <2>3. PICK fd \in {"none", "tmp", "live", "gone"} : moved[q] = [proc[q] EXCEPT !.fd = fd]
      BY <1>1, MovedKeeps
    <2>4. proc[q].pc # "fill" => moved[q] = proc[q]
      BY DEF Moved
    <2> HIDE DEF moved
    <2>5. Overtaken(moved[q]) =
             [moved[q] EXCEPT !.late = moved[q].late \/ moved[q].op \in {"pending", "commit"}]
      BY DEF Overtaken
    <2>6. Kept(q)
      <3>1. CASE proc'[q] = moved[q]
        BY <1>1, <2>3, <3>1 DEF Kept, RunType
      <3>2. CASE proc'[q] = Overtaken(moved[q])
        <4>1. PICK late \in BOOLEAN : proc'[q] = [moved[q] EXCEPT !.late = late]
                                        /\ (moved[q].late => late)
          BY <1>1, <2>3, <3>2, OvertakenKeeps, RunFields, ZenonT(60)
        <4>2. QED
          BY <1>1, <2>3, <4>1 DEF Kept, RunType
      <3>3. QED
        BY <2>2, <3>1, <3>2
    <2>7. proc[q].pc # "fill" => proc'[q].fd = proc[q].fd
      BY <1>1, <2>2, <2>4, <2>5 DEF RunType
    <2>8. QED
      BY <1>1, <2>1, <2>6, <2>7
  <1>7. QED
    BY <1>2, <1>3, <1>4, <1>5, <1>6

\* Once out of order, for good.
LEMMA OrderlyStays ==
    ASSUME Typed, NEW p \in Processes, Act(p)
    PROVE  orderly' => orderly
  <1>1. orderly \in BOOLEAN
    BY OwnRun
  <1>2. CASE StartCli(p) \/ StartEngine(p) \/ StartDesktop(p) \/ StartAccount(p)
    BY <1>2, ZenonT(60) DEF StartCli, StartEngine, StartDesktop, StartAccount, Start, ghosts
  <1>3. CASE TakeLock(p) \/ GiveUp(p) \/ GoUnlocked(p) \/ SeesStale(p) \/ Steal(p) \/ Unlock(p)
             \/ OpenTmp(p) \/ FillTmp(p) \/ RenameTmp(p)
    BY <1>1, <1>3, Zenon DEF TakeLock, GiveUp, GoUnlocked, SeesStale, Steal, Unlock, Dropped, OpenTmp, FillTmp,
                      RenameTmp, ghosts
  <1>4. CASE ReadProfiles(p) \/ MirrorOfCli(p) \/ MirrorOfEngine(p) \/ Unlink(p)
    BY <1>4, Zenon DEF ReadProfiles, MirrorOfCli, MirrorOfEngine, Unlink, ghosts
  <1>5. CASE ReadRegistry(p) \/ SaveRegistry(p) \/ FindGone(p) \/ PruneRegistry(p) \/ CopyRegistry(p)
    BY <1>1, <1>5, Zenon DEF ReadRegistry, SaveRegistry, FindGone, PruneRegistry, CopyRegistry, ghosts
  <1>6. CASE TakeFlock(p) \/ BeginLogin(p) \/ PollLogin(p) \/ CommitLogin(p) \/ SignOut(p)
    BY <1>6, Zenon DEF TakeFlock, BeginLogin, PollLogin, CommitLogin, SignOut, ghosts
  <1>7. CASE Refresh(p) \/ Exchange(p) \/ PutAccount(p)
    BY <1>7, Zenon DEF Refresh, Exchange, PutAccount, ghosts
  <1>8. CASE WaitForUser(p) \/ AbandonLogin(p) \/ Die(p)
    BY <1>8, Zenon DEF WaitForUser, AbandonLogin, Die, ghosts
  <1>9. QED
    BY <1>2, <1>3, <1>4, <1>5, <1>6, <1>7, <1>8 DEF Act, Step

\* The lock file changes hands only where nobody who runs holds it in order.
LEMMA LockMoves ==
    ASSUME Typed, LockExcludes, NEW p \in Processes, Act(p)
    PROVE  \/ lock' = lock
           \/ lock = None /\ TakeLock(p)
           \/ Unlock(p) /\ proc[p].holds
           \/ Steal(p) /\ (orderly' => lock \notin Running)
  <1>1. CASE StartCli(p) \/ StartEngine(p) \/ StartDesktop(p) \/ StartAccount(p)
    BY <1>1, Zenon DEF StartCli, StartEngine, StartDesktop, StartAccount, Start, locks
  <1>2. CASE TakeLock(p) \/ GiveUp(p) \/ GoUnlocked(p) \/ SeesStale(p) \/ Steal(p) \/ Unlock(p)
    BY <1>2, Zenon DEF TakeLock, GiveUp, GoUnlocked, SeesStale, Steal, Unlock, Dropped, locks
  <1>3. CASE OpenTmp(p) \/ FillTmp(p) \/ RenameTmp(p)
    BY <1>3, Zenon DEF OpenTmp, FillTmp, RenameTmp, locks
  <1>4. CASE ReadProfiles(p) \/ MirrorOfCli(p) \/ MirrorOfEngine(p) \/ Unlink(p)
    BY <1>4, Zenon DEF ReadProfiles, MirrorOfCli, MirrorOfEngine, Unlink, locks
  <1>5. CASE ReadRegistry(p) \/ SaveRegistry(p) \/ FindGone(p) \/ PruneRegistry(p) \/ CopyRegistry(p)
    BY <1>5, Zenon DEF ReadRegistry, SaveRegistry, FindGone, PruneRegistry, CopyRegistry, locks
  <1>6. CASE TakeFlock(p) \/ BeginLogin(p) \/ PollLogin(p) \/ CommitLogin(p) \/ SignOut(p)
    BY <1>6 DEF TakeFlock, BeginLogin, PollLogin, CommitLogin, SignOut, locks
  <1>7. CASE Refresh(p) \/ Exchange(p) \/ PutAccount(p)
    BY <1>7 DEF Refresh, Exchange, PutAccount, locks
  <1>8. CASE WaitForUser(p) \/ AbandonLogin(p) \/ Die(p)
    BY <1>8 DEF WaitForUser, AbandonLogin, Die, locks
  <1>9. QED
    BY <1>1, <1>2, <1>3, <1>4, <1>5, <1>6, <1>7, <1>8 DEF Act, Step

\* The lock of a process is left to it by the steps of the others.
LEMMA LockOfOthers ==
    ASSUME Typed, LockExcludes, NEW p \in Processes, Act(p), NEW q \in Processes \ {p}
    PROVE  LockFits(q)'
  <1>1. /\ LockFits(q) /\ LockFits(p) /\ Kept(q) /\ (orderly' => orderly)
        /\ lock \in Processes \cup {None} /\ q # None
    BY OthersKept, OrderlyStays, SharedProfilesAssumption DEF LockExcludes, Typed, SharedTyped
  <1>2. (q \in Running <=> q \in Running') /\ (Working(q) <=> Working(q)')
        /\ proc'[q].holds = proc[q].holds
    BY <1>1 DEF Kept, Running, Working
  <1>3. ASSUME orderly', proc[q].holds
        PROVE  lock' = q
    <2>1. lock = q /\ q \in Running /\ (proc[p].holds => lock = p)
      BY <1>1, <1>3, SMTT(40) DEF LockFits
    <2>2. QED
      BY <1>1, <1>3, <2>1, LockMoves
  <1>4. QED
    BY <1>1, <1>2, <1>3 DEF LockFits

\* What the run of a process becomes, action by action.
LEMMA RunOfRead ==
    ASSUME Typed, NEW p \in Processes, ReadProfiles(p)
    PROVE  /\ proc[p].pc \in {"read", "legacy"} /\ p \in Clis \cup Engines
           /\ \/ p \in Clis /\ proc[p].pc = "read" /\ live.profiles.state # "whole"
                 /\ proc'[p] = [proc[p] EXCEPT !.pc = "legacy"]
              \/ proc'[p] = Leaving(proc[p], FALSE)
              \/ \E new \in Edited(p, IF live.profiles.state = "whole" /\ proc[p].pc = "read"
                                      THEN live.profiles
                                      ELSE IF p \in Engines THEN EmptyProfiles ELSE Migrated) :
                    proc'[p] = [proc[p] EXCEPT !.pc = "open", !.new = new]
  <1>1. /\ proc[p].pc \in {"read", "legacy"} /\ p \in Clis \cup Engines
        /\ p \in Engines => proc[p].pc # "legacy"
        /\ proc \in [Processes -> RunType]
    BY OwnRun DEF ReadProfiles, At, Fits
  <1>2. ASSUME NEW base, Edit(p, base)
        PROVE  \/ proc'[p] = Leaving(proc[p], FALSE)
               \/ \E new \in Edited(p, base) : proc'[p] = [proc[p] EXCEPT !.pc = "open", !.new = new]
    BY <1>1, <1>2, Zenon DEF Edit
  <1>3. CASE proc[p].pc = "read" /\ live.profiles.state = "whole" /\ Edit(p, live.profiles)
    BY <1>1, <1>2, <1>3, Zenon
  <1>4. CASE /\ proc[p].pc = "read" /\ live.profiles.state # "whole" /\ p \in Engines
             /\ Edit(p, EmptyProfiles)
    BY <1>1, <1>2, <1>4, Zenon
  <1>5. CASE /\ proc[p].pc = "read" /\ live.profiles.state # "whole" /\ p \notin Engines
             /\ proc' = [proc EXCEPT ![p].pc = "legacy"]
    BY <1>1, <1>5, Zenon
  <1>6. CASE proc[p].pc = "legacy" /\ Edit(p, Migrated) /\ p \notin Engines
    BY <1>1, <1>2, <1>6, Zenon
  <1>7. QED
    BY <1>1, <1>3, <1>4, <1>5, <1>6, Zenon DEF ReadProfiles, At

\* The CLI copies the key of the active profile and keeps the rest;
LEMMA RunOfMirrorOfCli ==
    ASSUME Typed, NEW p \in Processes, MirrorOfCli(p)
    PROVE  LET key == ActiveKey(proc[p].new)
               existing == IF live.credentials.state = "whole" THEN live.credentials ELSE EmptyCreds
               next == [existing EXCEPT !.mirror = key]
           IN  /\ p \in Clis /\ proc[p].pc = "mirror"
               /\ proc'[p] = [proc[p] EXCEPT
                     !.file = "credentials", !.creds = next,
                     !.wrote = key = None /\ live.credentials.state = "absent",
                     !.pc = IF next # EmptyCreds THEN "open"
                            ELSE IF live.credentials.state = "absent" THEN "unlock" ELSE "unlink"]
  <1>1. proc \in [Processes -> RunType]
    BY OwnRun
  <1>2. QED
    BY <1>1 DEF MirrorOfCli, At

\* the engine copies the key and nothing else;
LEMMA RunOfMirrorOfEngine ==
    ASSUME Typed, NEW p \in Processes, MirrorOfEngine(p)
    PROVE  LET key == ActiveKey(proc[p].new) IN
           /\ p \in Engines /\ proc[p].pc = "mirror"
           /\ proc'[p] = [proc[p] EXCEPT
                 !.file = "credentials", !.creds = Creds("whole", key, 0, 0),
                 !.wrote = key = None /\ proc[p].op = "upsert",
                 !.pc = IF key # None THEN "open"
                        ELSE IF proc[p].op = "remove" THEN "unlink" ELSE "unlock"]
  <1>1. proc \in [Processes -> RunType]
    BY OwnRun
  <1>2. QED
    BY <1>1 DEF MirrorOfEngine, At

\* its file removed, a run leaves;
LEMMA RunOfUnlink ==
    ASSUME Typed, NEW p \in Processes, Unlink(p)
    PROVE  proc[p].pc = "unlink" /\ proc'[p] = Leaving(proc[p], TRUE)
  BY DEF Unlink, At

\* its file renamed, it goes on to what comes after;
LEMMA RunOfRename ==
    ASSUME Typed, NEW p \in Processes
    PROVE  /\ OpenTmp(p) =>
                 /\ proc[p].pc = "open"
                 /\ proc'[p] = [proc[p] EXCEPT !.pc = "fill", !.fd = "tmp"]
           /\ FillTmp(p) => proc[p].pc = "fill" /\ proc'[p] = [proc[p] EXCEPT !.pc = "rename"]
           /\ RenameTmp(p) =>
                 /\ proc[p].pc = "rename"
                 /\ proc'[p] = IF tmp[proc[p].file].state = "absent" THEN Leaving(proc[p], FALSE)
                               ELSE IF After(p) = "unlock" THEN Leaving(proc[p], TRUE)
                               ELSE [proc[p] EXCEPT !.pc = After(p)]
           /\ RenameTmp(p) =>
                 After(p) = IF proc[p].file = "credentials" THEN "unlock"
                            ELSE IF p \in Desktops
                            THEN IF proc[p].op = "prune" THEN "registry" ELSE "unlock"
                            ELSE "mirror"
  <1>1. proc \in [Processes -> RunType] /\ Fits(p, proc[p])
    BY OwnRun
  <1>2. OpenTmp(p) => /\ proc[p].pc = "open"
                      /\ proc'[p] = [proc[p] EXCEPT !.pc = "fill", !.fd = "tmp"]
    BY <1>1 DEF OpenTmp, At
  <1>3. FillTmp(p) => proc[p].pc = "fill" /\ proc'[p] = [proc[p] EXCEPT !.pc = "rename"]
    BY <1>1 DEF FillTmp, At
  <1>4. ASSUME RenameTmp(p)
        PROVE  /\ proc[p].pc = "rename"
               /\ proc'[p] = IF tmp[proc[p].file].state = "absent" THEN Leaving(proc[p], FALSE)
                             ELSE IF After(p) = "unlock" THEN Leaving(proc[p], TRUE)
                             ELSE [proc[p] EXCEPT !.pc = After(p)]
    <2>1. Moved(proc[p].file, p)[p] = proc[p]
      BY DEF Moved
    <2>2. CASE tmp[proc[p].file].state = "absent"
      BY <1>1, <1>4, <2>2 DEF RenameTmp, At
    <2>3. CASE tmp[proc[p].file].state # "absent"
      <3>1. proc' = [Moved(proc[p].file, p) EXCEPT ![p] = IF After(p) = "unlock" THEN Leaving(@, TRUE)
                                                          ELSE [@ EXCEPT !.pc = After(p)]]
        BY <1>4, <2>3, Zenon DEF RenameTmp
      <3>2. Moved(proc[p].file, p) \in [Processes -> RunType]
        <4>1. \A q \in Processes : Moved(proc[p].file, p)[q] \in RunType
          BY <1>1, MovedKeeps, Zenon
        <4>2. QED
          BY <4>1 DEF Moved
      <3>3. proc[p].pc = "rename"
        BY <1>4 DEF RenameTmp, At
      <3>4. QED
        BY <2>1, <2>3, <3>1, <3>2, <3>3, Zenon
    <2>4. QED
      BY <2>2, <2>3, Zenon
  <1>5. After(p) = IF proc[p].file = "credentials" THEN "unlock"
                   ELSE IF p \in Desktops
                   THEN IF proc[p].op = "prune" THEN "registry" ELSE "unlock"
                   ELSE "mirror"
    BY <1>1 DEF After, Fits
  <1>6. QED
    BY <1>2, <1>3, <1>4, <1>5, Zenon

\* the desktop goes from its registry to the copy,
LEMMA RunOfRegistry ==
    ASSUME Typed, NEW p \in Processes
    PROVE  /\ ReadRegistry(p) => /\ p \in Desktops /\ proc[p].pc = "read"
                                 /\ proc'[p] = [proc[p] EXCEPT !.pc = "change"]
           /\ SaveRegistry(p) => /\ p \in Desktops /\ proc[p].pc = "change" /\ proc[p].op = "save"
                                 /\ proc'[p] = [proc[p] EXCEPT !.pc = "copy"]
           /\ PruneRegistry(p) => /\ p \in Desktops /\ proc[p].pc = "registry"
                                  /\ proc'[p] = [proc[p] EXCEPT !.pc = "copy"]
  <1>1. proc \in [Processes -> RunType]
    BY OwnRun
  <1>2. QED
    BY <1>1 DEF ReadRegistry, SaveRegistry, PruneRegistry, At

\* and from the copy, or the clusters that are gone, to profiles.json;
LEMMA RunOfCopy ==
    ASSUME Typed, NEW p \in Processes, CopyRegistry(p)
    PROVE  /\ p \in Desktops /\ proc[p].pc = "copy"
           /\ proc'[p] = [proc[p] EXCEPT !.op = "copy", !.new = Mirrored(BaseOfCopy), !.pc = "open"]
  <1>1. proc \in [Processes -> RunType]
    BY OwnRun
  <1>2. QED
    BY <1>1, SMTT(40) DEF CopyRegistry, At

\* The collector names the vanished VMs, or leaves where there is none.
LEMMA RunOfFindGone ==
    ASSUME Typed, NEW p \in Processes, FindGone(p)
    PROVE  /\ p \in Desktops /\ proc[p].pc = "change" /\ proc[p].op = "prune"
           /\ \E gone \in SUBSET Ids :
                 proc'[p] = [proc[p] EXCEPT
                    !.gone = gone, !.new = Pruned(live.profiles, gone),
                    !.pc = IF gone = {} THEN "unlock"
                           ELSE IF live.profiles.state = "whole" THEN "open" ELSE "registry"]
  <1>1. proc \in [Processes -> RunType]
    BY OwnRun
  <1>2. PICK gone \in SUBSET ({VmId} \cap (Clusters \cup Stored(live.profiles))) :
           proc' = [proc EXCEPT ![p].gone = gone, ![p].new = Pruned(live.profiles, gone),
                                ![p].pc = IF gone = {} THEN "unlock"
                                          ELSE IF live.profiles.state = "whole" THEN "open"
                                          ELSE "registry"]
    BY Zenon DEF FindGone
  <1>3. gone \in SUBSET Ids
    BY SharedProfilesAssumption
  <1>4. QED
    BY <1>1, <1>2, <1>3, Zenon DEF FindGone, At

\* the helper decides by what it reads:
Failed(p) == [proc[p] EXCEPT !.op = "failed", !.pc = "unlock"]
Left(p) == [proc[p] EXCEPT !.pc = "unlock"]
Putting(p, able) == [proc[p] EXCEPT !.pc = "put",
                       !.creds = Creds("whole", live.credentials.mirror, able, Fresh)]

\* A sign-in keeps the generation it found.
LEMMA RunOfBeginLogin ==
    ASSUME Typed, NEW p \in Processes, BeginLogin(p)
    PROVE  /\ p \in Accounts /\ proc[p].pc = "read" /\ proc[p].op = "login"
           /\ \/ proc'[p] = Failed(p)
              \/ proc'[p] = [proc[p] EXCEPT !.op = "pending", !.pc = "unlock",
                                            !.generation = live.credentials.generation]
  <1>1. proc \in [Processes -> RunType]
    BY OwnRun
  <1>2. QED
    BY <1>1, Zenon DEF BeginLogin, Reading, At, Fail, Account, Failed

\* A pending sign-in lets the lock go again, or gives up.
LEMMA RunOfPollLogin ==
    ASSUME Typed, NEW p \in Processes, PollLogin(p)
    PROVE  /\ p \in Accounts /\ proc[p].pc = "read" /\ proc[p].op = "pending"
           /\ proc'[p] = Failed(p) \/ proc'[p] = Left(p)
  <1>1. proc \in [Processes -> RunType]
    BY OwnRun
  <1>2. QED
    BY <1>1, Zenon DEF PollLogin, Reading, At, Fail, Goto, Account, Failed, Left

\* A sign-in is committed only in the generation it began in.
LEMMA RunOfCommitLogin ==
    ASSUME Typed, NEW p \in Processes, CommitLogin(p)
    PROVE  /\ p \in Accounts /\ proc[p].pc = "read" /\ proc[p].op = "commit"
           /\ \/ /\ proc'[p] = Putting(p, Fresh)
                 /\ live.credentials.generation = proc[p].generation
              \/ proc'[p] = Failed(p)
  <1>1. proc \in [Processes -> RunType]
    BY OwnRun
  <1>2. QED
    BY <1>1, Zenon DEF CommitLogin, Reading, At, Fail, Prepare, Account, Failed, Putting

\* A sign-out empties the slot, or gives up.
LEMMA RunOfSignOut ==
    ASSUME Typed, NEW p \in Processes, SignOut(p)
    PROVE  /\ p \in Accounts /\ proc[p].pc = "read" /\ proc[p].op = "signout"
           /\ proc'[p] = Putting(p, 0) \/ proc'[p] = Failed(p)
  <1>1. proc \in [Processes -> RunType]
    BY OwnRun
  <1>2. QED
    BY <1>1, Zenon DEF SignOut, Reading, At, Fail, Prepare, Account, Failed, Putting

\* A refresh goes to the issuer, finds nothing to do, gives up, or clears a refused slot.
LEMMA RunOfRefresh ==
    ASSUME Typed, NEW p \in Processes, Refresh(p)
    PROVE  /\ p \in Accounts /\ proc[p].pc = "read" /\ proc[p].op = "refresh"
           /\ \/ proc'[p] = Failed(p)
              \/ proc'[p] = Left(p)
              \/ proc'[p] = Putting(p, 0)
              \/ /\ proc'[p] = [proc[p] EXCEPT !.creds = live.credentials, !.pc = "exchange"]
                 /\ live.credentials.able # 0
  <1>1. proc \in [Processes -> RunType]
    BY OwnRun
  <1>2. QED
    BY <1>1, Zenon DEF Refresh, Reading, At, Fail, Goto, Prepare, Account, Failed, Left, Putting

\* by what the server answers, and by what its user does;
LEMMA RunOfExchange ==
    ASSUME Typed, NEW p \in Processes, Exchange(p)
    PROVE  /\ p \in Accounts /\ proc[p].pc = "exchange"
           /\ \/ proc'[p] = Left(p)
              \/ \E able \in {0, Fresh, proc[p].creds.able},
                    generation \in {Fresh, proc[p].creds.generation} :
                    proc'[p] = [proc[p] EXCEPT !.pc = "put",
                                  !.creds = [proc[p].creds EXCEPT !.able = able,
                                                                  !.generation = generation]]
  <1>1. proc \in [Processes -> RunType] /\ Fits(p, proc[p]) /\ proc[p] \in RunType
    BY OwnRun
  <1>2. p \in Accounts /\ proc[p].pc = "exchange"
    BY <1>1 DEF Exchange, At, Fits, Processes, Writers
  <1> DEFINE Answer(able, generation) ==
                proc' = [proc EXCEPT ![p].pc = "put", ![p].creds.able = able,
                                     ![p].creds.generation = generation]
  <1>3. ASSUME NEW able, NEW generation, Answer(able, generation)
        PROVE  proc'[p] = [proc[p] EXCEPT !.pc = "put",
                             !.creds = [proc[p].creds EXCEPT !.able = able, !.generation = generation]]
    BY <1>1, <1>3, Zenon DEF RunType
  <1>4. \/ Answer(0, Fresh)
        \/ Goto(p, "unlock")
        \/ Answer(proc[p].creds.able, proc[p].creds.generation)
        \/ Answer(Fresh, proc[p].creds.generation)
    BY Zenon DEF Exchange
  <1>5. CASE Goto(p, "unlock")
    BY <1>1, <1>2, <1>5 DEF Goto, Left
  <1> HIDE DEF Answer
  <1>6. QED
    BY <1>2, <1>3, <1>4, <1>5, Zenon

\* Once the slot is written the lock is let go.
LEMMA RunOfPut ==
    ASSUME Typed, NEW p \in Processes, PutAccount(p)
    PROVE  p \in Accounts /\ proc[p].pc = "put" /\ proc'[p] = Left(p)
  <1>1. Fits(p, proc[p]) /\ proc[p].pc = "put"
    BY OwnRun DEF PutAccount, At
  <1>2. Moved("credentials", p)[p] = proc[p]
    BY DEF Moved
  <1>3. QED
    BY <1>1, <1>2 DEF PutAccount, Left, Fits, Processes, Writers

\* The user at the browser takes no lock.
LEMMA RunOfWait ==
    ASSUME Typed, NEW p \in Processes, WaitForUser(p)
    PROVE  /\ p \in Accounts /\ proc[p].pc = "browser"
           /\ \E op \in {"pending", "commit"} :
                 proc'[p] = [proc[p] EXCEPT !.pc = "flock", !.op = op]
  <1>1. proc \in [Processes -> RunType] /\ Fits(p, proc[p])
    BY OwnRun
  <1>2. QED
    BY <1>1, Zenon DEF WaitForUser, At, Fits, Processes, Writers

\* these are its fields.
LEMMA RunIsLeft ==
    ASSUME NEW p, proc[p] \in RunType
    PROVE  /\ Left(p).pc = "unlock" /\ Failed(p).pc = "unlock"
           /\ Left(p).op = proc[p].op /\ Failed(p).op = "failed"
           /\ \A r \in {Left(p), Failed(p)} :
                 r.holds = proc[p].holds /\ r.late = proc[p].late /\ r.generation = proc[p].generation
  BY DEF Left, Failed, RunType

\* and every run begins on its way to a lock.
LEMMA RunOfStart ==
    ASSUME Typed, NEW p \in Processes
    PROVE  /\ StartCli(p) => /\ p \in Clis /\ proc'[p].pc = "lock" /\ proc'[p].holds = FALSE
           /\ StartEngine(p) => /\ p \in Engines /\ proc'[p].pc = "lock" /\ proc'[p].holds = FALSE
           /\ StartDesktop(p) =>
                 /\ p \in Desktops /\ proc'[p].holds = FALSE
                 /\ \/ proc'[p].pc = "read" /\ proc'[p].op = "save"
                    \/ proc'[p].pc = "lock"
           /\ StartAccount(p) =>
                 /\ p \in Accounts /\ proc'[p].pc = "flock" /\ proc'[p].holds = FALSE
                 /\ proc'[p].op \in {"login", "refresh", "signout"}
  <1>1. proc \in [Processes -> RunType]
    BY OwnRun
  <1>2. \A r : Start(p, r) => proc'[p] = r
    BY <1>1 DEF Start
  <1>3. StartCli(p) => /\ p \in Clis /\ proc'[p].pc = "lock" /\ proc'[p].holds = FALSE
    BY <1>2, ZenonT(60) DEF StartCli, Blank
  <1>4. StartEngine(p) => /\ p \in Engines /\ proc'[p].pc = "lock" /\ proc'[p].holds = FALSE
    BY <1>2, ZenonT(60) DEF StartEngine, Blank
  <1>5. StartDesktop(p) => /\ p \in Desktops /\ proc'[p].holds = FALSE
                           /\ \/ proc'[p].pc = "read" /\ proc'[p].op = "save"
                              \/ proc'[p].pc = "lock"
    BY <1>2, ZenonT(60) DEF StartDesktop, Blank
  <1>6. StartAccount(p) => /\ p \in Accounts /\ proc'[p].pc = "flock" /\ proc'[p].holds = FALSE
                           /\ proc'[p].op \in {"login", "refresh", "signout"}
    BY <1>2, ZenonT(60) DEF StartAccount, Blank
  <1>7. QED
    BY <1>3, <1>4, <1>5, <1>6

\* A process works on the files only while it holds the lock.
LEMMA LockOfOwn ==
    ASSUME Typed, LockExcludes, NEW p \in Processes, Act(p)
    PROVE  LockFits(p)'
  <1>1. /\ proc \in [Processes -> RunType] /\ proc[p] \in RunType /\ Fits(p, proc[p])
        /\ LockFits(p) /\ (orderly' => orderly) /\ orderly \in BOOLEAN
    BY OwnRun, OrderlyStays DEF LockExcludes
  \* a run that does not hold the lock, nor works;
  <1>2. ASSUME ~proc'[p].holds,
               proc'[p].pc \in {"ready", "flock", "lock", "steal", "browser", "done", "dead"}
               \/ (proc'[p].pc \in {"read", "change", "copy"} /\ proc'[p].op = "save")
        PROVE  LockFits(p)'
    BY <1>2 DEF LockFits, Working
  \* one that holds what it held, and does not begin to work;
  <1>3. ASSUME lock' = lock, proc'[p].holds = proc[p].holds,
               proc'[p].pc \notin {"ready", "done", "dead"},
               orderly' /\ Working(p)' => Working(p)
        PROVE  LockFits(p)'
    BY <1>1, <1>3 DEF LockFits, Running
  \* and one that begins to work.
  <1>4. CASE TakeLock(p)
    BY <1>1, <1>4 DEF TakeLock, LockFits, Running, RunType
  <1>5. CASE StartCli(p) \/ StartEngine(p) \/ StartDesktop(p) \/ StartAccount(p)
    <2>1. /\ ~proc'[p].holds
          /\ \/ proc'[p].pc \in {"lock", "flock"}
             \/ proc'[p].pc = "read" /\ proc'[p].op = "save"
      BY <1>1, <1>5, RunOfStart, Zenon
    <2>2. QED
      BY <1>2, <2>1
  <1>6. CASE GiveUp(p) \/ AbandonLogin(p) \/ Die(p)
    BY <1>1, <1>2, <1>6 DEF GiveUp, AbandonLogin, Die, Ended, Blank
  <1>7. CASE GoUnlocked(p)
    BY <1>1, <1>7 DEF GoUnlocked, LockFits, Running, RunType
  <1>8. CASE SeesStale(p) \/ TakeFlock(p) \/ WaitForUser(p)
    BY <1>1, <1>3, <1>8 DEF SeesStale, TakeFlock, WaitForUser, Working, RunType, locks
  <1>9. CASE Steal(p)
    <2>1. proc'[p].holds = proc[p].holds /\ p \in Running /\ p \in Running' /\ ~Working(p)'
      BY <1>1, <1>9 DEF Steal, At, Running, Working, RunType
    <2>2. ~orderly' \/ ~proc[p].holds
      BY <1>1, <1>9, <2>1 DEF Steal, Dropped, LockFits
    <2>3. QED
      BY <2>1, <2>2 DEF LockFits
  <1>10. CASE Unlock(p)
    <2>1. ~proc'[p].holds /\ proc'[p].pc \in {"browser", "done"}
      BY <1>1, <1>10 DEF Unlock, Blank, RunType
    <2>2. QED
      BY <1>2, <2>1
  <1>11. CASE OpenTmp(p) \/ FillTmp(p)
    BY <1>1, <1>3, <1>11 DEF OpenTmp, FillTmp, At, Working, RunType, locks
  <1>12. CASE RenameTmp(p)
    <2>1. Working(p) /\ lock' = lock
      BY <1>12 DEF RenameTmp, At, Working, locks
    <2>2. proc'[p].holds = proc[p].holds /\ proc'[p].pc \in {"unlock", "registry", "mirror"}
      <3>1. \/ proc'[p] \in {Leaving(proc[p], TRUE), Leaving(proc[p], FALSE)}
            \/ \E pc \in {"registry", "mirror"} : proc'[p] = [proc[p] EXCEPT !.pc = pc]
        BY <1>12, RunOfRename, Zenon
      <3>2. CASE proc'[p] \in {Leaving(proc[p], TRUE), Leaving(proc[p], FALSE)}
        BY <3>2, ZenonT(60) DEF Leaving, Blank
      <3>3. CASE \E pc \in {"registry", "mirror"} : proc'[p] = [proc[p] EXCEPT !.pc = pc]
        BY <1>1, <3>3 DEF RunType
      <3>4. QED
        BY <3>1, <3>2, <3>3, Zenon
    <2>3. QED
      BY <1>3, <2>1, <2>2
  <1>13. CASE ReadProfiles(p)
    <2>1. Working(p) /\ lock' = lock
      BY <1>1, <1>13 DEF ReadProfiles, At, Working, Fits, locks
    <2>2. proc'[p].holds = proc[p].holds /\ proc'[p].pc \in {"legacy", "open", "unlock"}
      <3>1. \/ proc'[p] = Leaving(proc[p], FALSE)
            \/ proc'[p] = [proc[p] EXCEPT !.pc = "legacy"]
            \/ \E new : proc'[p] = [proc[p] EXCEPT !.pc = "open", !.new = new]
        BY <1>13, RunOfRead, Zenon
      <3>2. CASE proc'[p] = Leaving(proc[p], FALSE)
        BY <3>2 DEF Leaving, Blank
      <3>3. CASE proc'[p] = [proc[p] EXCEPT !.pc = "legacy"]
        BY <1>1, <3>3 DEF RunType
      <3>4. ASSUME NEW new, proc'[p] = [proc[p] EXCEPT !.pc = "open", !.new = new]
            PROVE  proc'[p].holds = proc[p].holds /\ proc'[p].pc = "open"
        BY <1>1, <3>4 DEF RunType
      <3>5. QED
        BY <3>1, <3>2, <3>3, <3>4, Zenon
    <2>3. QED
      BY <1>3, <2>1, <2>2
  <1>14. CASE MirrorOfCli(p) \/ MirrorOfEngine(p) \/ Unlink(p)
    <2>1. Working(p) /\ lock' = lock
      BY <1>14, Zenon DEF MirrorOfCli, MirrorOfEngine, Unlink, At, Working, locks
    <2>2. proc'[p].holds = proc[p].holds /\ proc'[p].pc \in {"open", "unlink", "unlock"}
      <3>1. CASE MirrorOfCli(p) \/ MirrorOfEngine(p)
        <4> DEFINE key == ActiveKey(proc[p].new)
                   existing == IF live.credentials.state = "whole" THEN live.credentials
                               ELSE EmptyCreds
        <4>1. PICK creds \in {[existing EXCEPT !.mirror = key], Creds("whole", key, 0, 0)},
                   wrote \in BOOLEAN, pc \in {"open", "unlock", "unlink"} :
                 proc' = [proc EXCEPT ![p].file = "credentials", ![p].creds = creds,
                                      ![p].wrote = wrote, ![p].pc = pc]
          BY <3>1, Zenon DEF MirrorOfCli, MirrorOfEngine
        <4> HIDE DEF key, existing
        <4>2. QED
          BY <1>1, <4>1 DEF RunType
      <3>2. CASE Unlink(p)
        <4>1. proc'[p] = Leaving(proc[p], TRUE)
          BY <3>2, RunOfUnlink, Zenon
        <4>2. QED
          BY <4>1 DEF Leaving, Blank
      <3>3. QED
        BY <1>14, <3>1, <3>2
    <2>3. QED
      BY <1>3, <2>1, <2>2
  <1>15. CASE ReadRegistry(p) \/ SaveRegistry(p) \/ PruneRegistry(p)
    <2>1. lock' = lock
      BY <1>15 DEF ReadRegistry, SaveRegistry, PruneRegistry, locks
    <2>2. /\ proc'[p].holds = proc[p].holds /\ proc'[p].op = proc[p].op
          /\ \/ proc[p].pc = "read" /\ proc'[p].pc = "change"
             \/ proc[p].pc = "change" /\ proc'[p].pc = "copy" /\ proc[p].op = "save"
             \/ proc[p].pc = "registry" /\ proc'[p].pc = "copy"
      <3>1. \/ /\ proc[p].pc = "read" /\ proc'[p] = [proc[p] EXCEPT !.pc = "change"]
            \/ /\ proc[p].pc = "change" /\ proc[p].op = "save"
               /\ proc'[p] = [proc[p] EXCEPT !.pc = "copy"]
            \/ /\ proc[p].pc = "registry" /\ proc'[p] = [proc[p] EXCEPT !.pc = "copy"]
        BY <1>15, RunOfRegistry, Zenon
      <3>2. QED
        BY <1>1, <3>1 DEF RunType
    <2>3. Working(p)' => Working(p)
      BY <2>2 DEF Working
    <2>4. QED
      BY <1>3, <2>1, <2>2, <2>3
  <1>16. CASE FindGone(p)
    <2>1. Working(p) /\ lock' = lock
      BY <1>16 DEF FindGone, At, Working, locks
    <2>2. proc'[p].holds = proc[p].holds /\ proc'[p].pc \in {"open", "unlock", "registry"}
      <3>1. PICK gone \in SUBSET Ids :
               proc'[p] = [proc[p] EXCEPT
                  !.gone = gone, !.new = Pruned(live.profiles, gone),
                  !.pc = IF gone = {} THEN "unlock"
                         ELSE IF live.profiles.state = "whole" THEN "open" ELSE "registry"]
        BY <1>16, RunOfFindGone, Zenon
      <3> DEFINE new == Pruned(live.profiles, gone)
                 pc == IF gone = {} THEN "unlock"
                       ELSE IF live.profiles.state = "whole" THEN "open" ELSE "registry"
      <3>2. pc \in {"open", "unlock", "registry"}
        OBVIOUS
      <3>3. proc'[p] = [proc[p] EXCEPT !.gone = gone, !.new = new, !.pc = pc]
        BY <3>1
      <3> HIDE DEF new, pc
      <3>4. QED
        BY <1>1, <3>2, <3>3, SMTT(40) DEF RunType
    <2>3. QED
      BY <1>3, <2>1, <2>2
  <1>17. CASE CopyRegistry(p)
    <2>1. /\ lock' = lock /\ proc'[p].holds = proc[p].holds /\ proc'[p].pc = "open"
          /\ orderly' => proc[p].holds
      BY <1>1, <1>17, RunOfCopy, Zenon DEF CopyRegistry, RunType, locks
    <2>2. QED
      BY <1>1, <2>1 DEF LockFits, Running
  <1>18. CASE BeginLogin(p) \/ PollLogin(p) \/ CommitLogin(p) \/ SignOut(p) \/ Refresh(p)
    <2>1. Working(p) /\ lock' = lock
      BY <1>18 DEF BeginLogin, PollLogin, CommitLogin, SignOut, Refresh, Reading, At, Working, locks
    <2>2. proc'[p].holds = proc[p].holds /\ proc'[p].pc \in {"unlock", "put", "exchange"}
      <3>1. CASE BeginLogin(p) \/ PollLogin(p)
        <4>1. \/ proc'[p] = Failed(p) \/ proc'[p] = Left(p)
              \/ proc'[p] = [proc[p] EXCEPT !.op = "pending", !.pc = "unlock",
                                            !.generation = live.credentials.generation]
          BY <3>1, RunOfBeginLogin, RunOfPollLogin, Zenon
        <4>2. CASE proc'[p] = Failed(p) \/ proc'[p] = Left(p)
          BY <1>1, <4>2, RunIsLeft
        <4>3. CASE proc'[p] = [proc[p] EXCEPT !.op = "pending", !.pc = "unlock",
                                             !.generation = live.credentials.generation]
          BY <1>1, <4>3 DEF RunType
        <4>4. QED
          BY <4>1, <4>2, <4>3
      <3>2. CASE CommitLogin(p) \/ SignOut(p)
        <4>1. proc'[p] = Failed(p) \/ \E able : proc'[p] = Putting(p, able)
          BY <3>2, RunOfCommitLogin, RunOfSignOut
        <4>2. CASE proc'[p] = Failed(p)
          BY <1>1, <4>2, RunIsLeft
        <4>3. CASE \E able : proc'[p] = Putting(p, able)
          <5>1. PICK creds : proc'[p] = [proc[p] EXCEPT !.pc = "put", !.creds = creds]
            BY <4>3, Zenon DEF Putting
          <5>2. QED
            BY <1>1, <5>1 DEF RunType
        <4>4. QED
          BY <4>1, <4>2, <4>3
      <3>3. CASE Refresh(p)
        <4>1. \/ proc'[p] = Failed(p) \/ proc'[p] = Left(p) \/ proc'[p] = Putting(p, 0)
              \/ proc'[p] = [proc[p] EXCEPT !.creds = live.credentials, !.pc = "exchange"]
          BY <3>3, RunOfRefresh, Zenon
        <4>2. CASE proc'[p] = [proc[p] EXCEPT !.creds = live.credentials, !.pc = "exchange"]
          BY <1>1, <4>2 DEF RunType
        <4>3. CASE proc'[p] = Failed(p) \/ proc'[p] = Left(p)
          BY <1>1, <4>3, RunIsLeft
        <4>4. CASE proc'[p] = Putting(p, 0)
          <5>1. PICK creds : proc'[p] = [proc[p] EXCEPT !.pc = "put", !.creds = creds]
            BY <4>4, Zenon DEF Putting
          <5>2. QED
            BY <1>1, <5>1 DEF RunType
        <4>5. QED
          BY <4>1, <4>2, <4>3, <4>4
      <3>4. QED
        BY <1>18, <3>1, <3>2, <3>3
    <2>3. QED
      BY <1>3, <2>1, <2>2
  <1>19. CASE Exchange(p) \/ PutAccount(p)
    <2>1. Working(p) /\ lock' = lock
      BY <1>19, SMTT(40) DEF Exchange, PutAccount, At, Working, locks
    <2>2. proc'[p].holds = proc[p].holds /\ proc'[p].pc \in {"unlock", "put"}
      <3>1. \/ proc'[p] = Left(p)
            \/ \E creds : proc'[p] = [proc[p] EXCEPT !.pc = "put", !.creds = creds]
        <4>1. CASE PutAccount(p)
          BY <4>1, RunOfPut, Zenon
        <4>2. CASE Exchange(p)
          BY <4>2, RunOfExchange, Zenon
        <4>3. QED
          BY <1>19, <4>1, <4>2, Zenon
      <3>2. CASE proc'[p] = Left(p)
        BY <1>1, <3>2, RunIsLeft
      <3>3. ASSUME NEW creds, proc'[p] = [proc[p] EXCEPT !.pc = "put", !.creds = creds]
            PROVE  proc'[p].holds = proc[p].holds /\ proc'[p].pc = "put"
        BY <1>1, <3>3 DEF RunType
      <3>4. QED
        BY <3>1, <3>2, <3>3, Zenon
    <2>3. QED
      BY <1>3, <2>1, <2>2, SMTT(40)
  <1>20. QED
    BY <1>4, <1>5, <1>6, <1>7, <1>8, <1>9, <1>10, <1>11, <1>12, <1>13, <1>14, <1>15, <1>16, <1>17,
       <1>18, <1>19 DEF Act, Step

\* In order the lock excludes: a run that works on the files is the only one.
LEMMA LockStep ==
    ASSUME Typed, LockExcludes, NEW p \in Processes, Act(p)
    PROVE  LockExcludes'
  BY LockOfOwn, LockOfOthers DEF LockExcludes, Processes, Writers

\* Two processes that work on the files in order are one.
LEMMA OnlyOneWorks ==
    ASSUME Typed, LockExcludes, orderly, NEW p \in Processes, NEW q \in Processes,
           Working(p), Working(q)
    PROVE  p = q
  BY DEF LockExcludes, LockFits

--------------------------------------------------------------------------------
(* What the processes write follows from the files.                          *)

\* The files change only where a process works on them, the registry only in commands
\* of the desktop.
LEMMA FilesChange ==
    ASSUME Typed, NEW p \in Processes, Act(p)
    PROVE  /\ \/ UNCHANGED <<live, tmp, replaced, wiped>>
              \/ Working(p) /\ (OpenTmp(p) \/ FillTmp(p) \/ RenameTmp(p) \/ Unlink(p) \/ PutAccount(p))
           /\ config' = config \/ p \in Running \cap Desktops
  <1>1. CASE StartCli(p) \/ StartEngine(p) \/ StartDesktop(p) \/ StartAccount(p)
    BY <1>1, Zenon DEF StartCli, StartEngine, StartDesktop, StartAccount, Start, files, ghosts
  <1>2. CASE TakeLock(p) \/ GiveUp(p) \/ GoUnlocked(p) \/ SeesStale(p) \/ Steal(p) \/ Unlock(p)
    BY <1>2, SMTT(40) DEF TakeLock, GiveUp, GoUnlocked, SeesStale, Steal, Unlock, files, ghosts
  <1>3. CASE OpenTmp(p) \/ FillTmp(p) \/ RenameTmp(p) \/ Unlink(p) \/ PutAccount(p)
    BY <1>3, Zenon DEF OpenTmp, FillTmp, RenameTmp, Unlink, PutAccount, At, Working
  <1>4. CASE ReadProfiles(p) \/ MirrorOfCli(p) \/ MirrorOfEngine(p)
    BY <1>4, SMTT(40) DEF ReadProfiles, MirrorOfCli, MirrorOfEngine, files, ghosts
  <1>5. CASE ReadRegistry(p) \/ SaveRegistry(p) \/ FindGone(p) \/ PruneRegistry(p) \/ CopyRegistry(p)
    BY <1>5, Zenon DEF ReadRegistry, SaveRegistry, FindGone, PruneRegistry, CopyRegistry, files, ghosts, At,
                Running
  <1>6. CASE TakeFlock(p) \/ BeginLogin(p) \/ PollLogin(p) \/ CommitLogin(p) \/ SignOut(p)
    BY <1>6 DEF TakeFlock, BeginLogin, PollLogin, CommitLogin, SignOut, files, ghosts
  <1>7. CASE Refresh(p) \/ Exchange(p)
    BY <1>7 DEF Refresh, Exchange, files, ghosts
  <1>8. CASE WaitForUser(p) \/ AbandonLogin(p) \/ Die(p)
    BY <1>8 DEF WaitForUser, AbandonLogin, Die, files, ghosts
  <1>9. QED
    BY <1>1, <1>2, <1>3, <1>4, <1>5, <1>6, <1>7, <1>8, SMTT(40) DEF Act, Step

\* What a process may make of the files depends on them, on its operation and, for the
\* desktop, on the registry.
LEMMA UpdatesStay ==
    ASSUME NEW q \in Writers, UNCHANGED live, proc'[q].op = proc[q].op, proc'[q].id = proc[q].id,
           proc'[q].flag = proc[q].flag, proc'[q].gone = proc[q].gone,
           q \in Desktops => UNCHANGED config
    PROVE  Updates(q)' = Updates(q)
  <1>1. /\ BaseOfCopy' = BaseOfCopy /\ Migrated' = Migrated
        /\ \A base : Edited(q, base)' = Edited(q, base)
    BY DEF BaseOfCopy, Migrated, EmptyProfiles, Edited, Stored
  <1>2. q \in Desktops => Mirrored(BaseOfCopy)' = Mirrored(BaseOfCopy)
    BY <1>1 DEF Mirrored, Clusters, Stored
  <1>3. CASE q \in Clis
    BY <1>1, <1>3 DEF Updates
  <1>4. CASE q \in Engines
    BY <1>1, <1>4, SharedProfilesAssumption DEF Updates
  <1>5. CASE q \in Desktops
    BY <1>1, <1>2, <1>5, SharedProfilesAssumption DEF Updates
  <1>6. QED
    BY <1>3, <1>4, <1>5 DEF Writers

\* A step of another process leaves in order what a process is about to write: where one
\* works on the files, the other does not.
LEMMA WritesOfOthers ==
    ASSUME Typed, LockExcludes, InOrder, orderly', NEW p \in Processes, Act(p),
           NEW q \in Processes \ {p}
    PROVE  WritesFit(q)'
  <1>1. /\ orderly /\ WritesFit(q) /\ Kept(q) /\ Fits(q, proc[q])
    BY OthersKept, OrderlyStays, OwnRun DEF InOrder
  <1>2. CASE ~Working(q)
    BY <1>1, <1>2 DEF Working, WritesFit, Kept
  <1>3. CASE Working(q)
    <2>1. ~Working(p)
      BY <1>1, <1>3, OnlyOneWorks
    <2>2. UNCHANGED <<live, tmp, replaced>> /\ proc'[q].fd = proc[q].fd
      BY <2>1, FilesChange, OthersKept
    <2>3. q \in Running
      BY <1>3 DEF Working, Running
    <2>4. q \in Desktops => UNCHANGED config
      BY <2>3, FilesChange DEF Typed, RunsTyped
    <2>5. /\ proc'[q].pc = proc[q].pc /\ proc'[q].op = proc[q].op /\ proc'[q].id = proc[q].id
          /\ proc'[q].flag = proc[q].flag /\ proc'[q].gone = proc[q].gone
          /\ proc'[q].file = proc[q].file /\ proc'[q].new = proc[q].new
          /\ proc'[q].creds = proc[q].creds /\ proc'[q].wrote = proc[q].wrote
      BY <1>1 DEF Kept
    <2>6. proc[q].pc \in {"open", "fill", "rename"} => Updates(q)' = Updates(q)
      <3>1. proc[q].pc \in {"open", "fill", "rename"} => q \in Writers
        BY <1>1 DEF Fits, Processes
      <3>2. QED
        BY <2>2, <2>4, <2>5, <3>1, UpdatesStay
    <2>7. Text(q)' = Text(q) /\ ActiveKey(live.profiles)' = ActiveKey(live.profiles)
      BY <2>2, <2>5 DEF Text, ActiveKey
    <2>8. QED
      BY <1>1, <2>2, <2>5, <2>6, <2>7 DEF WritesFit
  <1>4. QED
    BY <1>2, <1>3

\* The steps of a process that leave the files alone and do not bring it to work on them.
LEMMA WritesOfIdle ==
    ASSUME NEW p \in Processes,
           proc'[p].pc \in {"ready", "flock", "lock", "steal", "read", "change", "registry", "copy",
                            "browser", "done", "dead"}
           \/ (proc'[p].pc = "unlock" /\ (~proc'[p].wrote \/ p \notin Clis \cup Engines))
    PROVE  WritesFit(p)'
  BY DEF WritesFit

\* The files stay in order when they do not change.
LEMMA FilesStayFit ==
    ASSUME FilesFit, UNCHANGED <<live, replaced>>
    PROVE  FilesFit'
  BY DEF FilesFit, NeverHalfWritten

\* One step keeps the files, and what its process is about to write, in order.
Fitting(p) == FilesFit' /\ WritesFit(p)'

\* The files stay in order at the start and the end of a run and on its way to the lock,
LEMMA FitStart ==
    ASSUME Typed, FilesFit, NEW p \in Processes,
           \/ StartCli(p) \/ StartEngine(p) \/ StartDesktop(p) \/ StartAccount(p)
           \/ GiveUp(p) \/ AbandonLogin(p) \/ Die(p) \/ Unlock(p)
           \/ TakeLock(p) \/ GoUnlocked(p) \/ SeesStale(p) \/ Steal(p)
           \/ TakeFlock(p) \/ WaitForUser(p)
    PROVE  Fitting(p)
  <1>1. proc \in [Processes -> RunType] /\ proc[p] \in RunType
    BY OwnRun, SMTT(40)
  <1>2. UNCHANGED <<live, replaced>>
    BY Zenon DEF StartCli, StartEngine, StartDesktop, StartAccount, Start, GiveUp, AbandonLogin, Die, Unlock,
           TakeLock, GoUnlocked, SeesStale, Steal, TakeFlock, WaitForUser, files, ghosts
  <1>3. proc'[p].pc \in {"ready", "flock", "lock", "steal", "read", "browser", "done", "dead"}
    <2>1. CASE StartCli(p) \/ StartEngine(p) \/ StartDesktop(p) \/ StartAccount(p)
      BY <2>1, RunOfStart, Zenon
    <2>2. CASE GiveUp(p) \/ AbandonLogin(p) \/ Die(p)
      BY <1>1, <2>2 DEF GiveUp, AbandonLogin, Die, Ended, Blank
    <2>3. CASE Unlock(p)
      BY <1>1, <2>3 DEF Unlock, Blank, RunType
    <2>4. CASE TakeLock(p) \/ GoUnlocked(p) \/ SeesStale(p) \/ Steal(p) \/ TakeFlock(p) \/ WaitForUser(p)
      BY <1>1, <2>4 DEF TakeLock, GoUnlocked, SeesStale, Steal, TakeFlock, WaitForUser, RunType
    <2>5. QED
      BY <2>1, <2>2, <2>3, <2>4
  <1>4. QED
    BY <1>2, <1>3, WritesOfIdle, FilesStayFit DEF Fitting

\* when a profile is changed,
LEMMA FitRead ==
    ASSUME Typed, FilesFit, NEW p \in Processes, WritesFit(p), ReadProfiles(p)
    PROVE  Fitting(p)
  <1>1. /\ proc[p] \in RunType /\ Fits(p, proc[p]) /\ p \in Clis \cup Engines
        /\ proc[p].pc \in {"read", "legacy"}
        /\ UNCHANGED <<files, config, replaced>>
    BY OwnRun, RunOfRead, Zenon DEF ReadProfiles, ghosts
  <1>2. UNCHANGED <<live, replaced>>
    BY <1>1 DEF files
  <1>3. CASE proc'[p] = Leaving(proc[p], FALSE)
    <2>1. proc'[p].pc = "unlock" /\ ~proc'[p].wrote
      BY <1>3 DEF Leaving, Blank
    <2>2. QED
      BY <1>2, <2>1, WritesOfIdle, FilesStayFit DEF Fitting
  <1>4. CASE live.profiles.state # "whole" /\ proc'[p] = [proc[p] EXCEPT !.pc = "legacy"]
    <2>1. proc'[p].pc = "legacy" /\ live'.profiles.state # "whole"
      BY <1>1, <1>2, <1>4 DEF RunType
    <2>2. WritesFit(p)'
      BY <2>1 DEF WritesFit
    <2>3. QED
      BY <1>2, <2>2, FilesStayFit DEF Fitting
  <1> DEFINE base == IF live.profiles.state = "whole" THEN live.profiles
                     ELSE IF p \in Engines THEN EmptyProfiles ELSE Migrated
  <1>5. ASSUME NEW new \in Edited(p, base),
               proc'[p] = [proc[p] EXCEPT !.pc = "open", !.new = new]
        PROVE  Fitting(p)
    <2>1. /\ proc'[p].pc = "open" /\ proc'[p].new = new /\ proc'[p].file = "profiles"
          /\ proc'[p].op = proc[p].op /\ proc'[p].id = proc[p].id
          /\ proc'[p].flag = proc[p].flag /\ proc'[p].gone = proc[p].gone
      BY <1>1, <1>5 DEF RunType, Fits
    <2>2. Updates(p)' = Updates(p)
      BY <1>1, <1>2, <2>1, UpdatesStay DEF Writers
    <2>3. new \in Updates(p)
      <3>1. CASE p \in Clis
        <4>1. base = IF live.profiles.state = "whole" THEN live.profiles ELSE Migrated
          BY <3>1, SharedProfilesAssumption
        <4>0. p \notin Engines /\ proc[p].op # "prune"
          BY <1>1, <3>1, SharedProfilesAssumption DEF Fits
        <4> HIDE DEF base
        <4>2. Updates(p) = Edited(p, base)
          BY <3>1, <4>0, <4>1 DEF Updates
        <4>3. QED
          BY <1>5, <4>2
      <3>2. CASE p \in Engines
        <4>1. base = BaseOfCopy /\ p \notin Clis
          BY <3>2, SharedProfilesAssumption DEF BaseOfCopy
        <4>0. proc[p].op # "prune"
          BY <1>1, <3>2 DEF Fits
        <4> HIDE DEF base
        <4>2. Updates(p) = Edited(p, base)
          BY <3>2, <4>0, <4>1 DEF Updates
        <4>3. QED
          BY <1>5, <4>2
      <3>3. QED
        BY <1>1, <3>1, <3>2
    <2>4. base \in ProfilesType /\ WellFormed(base) /\ base.state = "whole"
      BY FilesTyped, EmptyFits, MigratedFits DEF EmptyProfiles, Typed
    <2>5. proc[p].op # "none" /\ proc[p].id \in Ids
      BY <1>1 DEF Fits
    <2>6. new.state = "whole"
      BY <1>5, <2>4, <2>5, EditedFits
    <2>7. proc[p].op = "upsert" => new.active # None
      BY <1>5, <2>5, SharedProfilesAssumption DEF Edited, Profiles
    <2>8. WritesFit(p)'
      BY <2>1, <2>2, <2>3, <2>6, <2>7 DEF WritesFit
    <2>9. QED
      BY <1>2, <2>8, FilesStayFit DEF Fitting
  <1>6. proc[p].pc = "legacy" => live.profiles.state # "whole" /\ p \notin Engines
    BY <1>1 DEF WritesFit, Fits
  <1>7. QED
    BY <1>1, <1>3, <1>4, <1>5, <1>6, RunOfRead, ZenonT(60)

\* The text of a file is whole when it is written.
LEMMA TextIsWhole ==
    ASSUME Typed, NEW p \in Processes, WritesFit(p), proc[p].pc \in {"open", "fill", "rename"}
    PROVE  /\ Text(p).state = "whole" /\ proc[p].file \in {"profiles", "credentials"}
           /\ p \in Writers
  <1>1. proc[p].file \in {"profiles", "credentials"} /\ Fits(p, proc[p])
    BY OwnRun, RunTyped
  <1>2. Text(p).state = "whole"
    BY <1>1 DEF Text, WritesFit
  <1>3. QED
    BY <1>1, <1>2 DEF Fits, Processes

\* when the temporary file is written,
LEMMA FitFill ==
    ASSUME Typed, FilesFit, NEW p \in Processes, WritesFit(p), OpenTmp(p) \/ FillTmp(p)
    PROVE  Fitting(p)
  <1>1. /\ proc[p] \in RunType /\ proc[p].pc \in {"open", "fill"}
        /\ UNCHANGED <<config, replaced>> /\ p \in Writers
        /\ DOMAIN tmp = {"profiles", "credentials"}
    <2>1. proc[p].pc \in {"open", "fill"} /\ UNCHANGED <<config, replaced>>
      BY DEF OpenTmp, FillTmp, At, ghosts
    <2>2. DOMAIN tmp = {"profiles", "credentials"}
      BY DEF Typed, SharedTyped, FilesType
    <2>3. QED
      BY <2>1, <2>2, OwnRun, TextIsWhole
  <1> DEFINE f == proc[p].file
  <1>2. f \in {"profiles", "credentials"} /\ Text(p).state = "whole"
    BY <1>1, TextIsWhole
  <1>3. CASE OpenTmp(p)
    <2>1. /\ UNCHANGED live /\ proc'[p] = [proc[p] EXCEPT !.pc = "fill", !.fd = "tmp"]
          /\ tmp' = [tmp EXCEPT ![f] = Torn[f]] /\ proc[p].pc = "open"
      BY <1>3, RunOfRename, Zenon DEF OpenTmp
    <2>2. /\ proc'[p].pc = "fill" /\ proc'[p].fd = "tmp" /\ proc'[p].file = f
          /\ proc'[p].op = proc[p].op /\ proc'[p].id = proc[p].id /\ proc'[p].flag = proc[p].flag
          /\ proc'[p].gone = proc[p].gone /\ proc'[p].new = proc[p].new
          /\ proc'[p].creds = proc[p].creds
      BY <1>1, <2>1 DEF RunType
    <2>3. tmp'[f] = Torn[f]
      BY <1>1, <1>2, <2>1
    <2>4. Updates(p)' = Updates(p)
      BY <1>1, <2>1, <2>2, UpdatesStay, Zenon
    <2>5. WritesFit(p)'
      BY <1>2, <2>1, <2>2, <2>3, <2>4 DEF WritesFit, ActiveKey
    <2>6. QED
      BY <1>1, <2>1, <2>5, FilesStayFit DEF Fitting
  <1>4. CASE FillTmp(p)
    <2>1. /\ proc'[p] = [proc[p] EXCEPT !.pc = "rename"] /\ proc[p].pc = "fill"
          /\ proc[p].fd = "tmp" /\ tmp[f] = Torn[f]
      BY <1>4, RunOfRename, Zenon DEF WritesFit
    <2>2. Torn[f].state = "torn"
      BY <1>2 DEF Torn, TornProfiles, TornCreds, Profiles, Creds
    <2>3. UNCHANGED live /\ tmp' = [tmp EXCEPT ![f] = Text(p)]
      BY <1>4, <2>1, <2>2 DEF FillTmp, Text
    <2>4. /\ proc'[p].pc = "rename" /\ proc'[p].file = f
          /\ proc'[p].op = proc[p].op /\ proc'[p].id = proc[p].id /\ proc'[p].flag = proc[p].flag
          /\ proc'[p].gone = proc[p].gone /\ proc'[p].new = proc[p].new
          /\ proc'[p].creds = proc[p].creds
      BY <1>1, <2>1 DEF RunType
    <2>5. tmp'[f] = Text(p) /\ Text(p)' = Text(p)
      BY <1>1, <1>2, <2>3, <2>4 DEF Text
    <2>6. Updates(p)' = Updates(p)
      BY <1>1, <2>3, <2>4, UpdatesStay
    <2>7. WritesFit(p)'
      BY <1>2, <2>1, <2>3, <2>4, <2>5, <2>6 DEF WritesFit, ActiveKey
    <2>8. QED
      BY <1>1, <2>3, <2>7, FilesStayFit, SMTT(40) DEF Fitting
  <1>5. QED
    BY <1>3, <1>4

\* A token that has not been handed out has not been replaced.
LEMMA NotReplaced ==
    ASSUME Typed
    PROVE  /\ 0 \notin replaced /\ Fresh \notin replaced /\ Fresh # 0
           /\ issued \in Nat /\ replaced \subseteq 1..issued
  BY DEF Typed, SharedTyped, Fresh

\* when it is renamed into place,
LEMMA FitRename ==
    ASSUME Typed, FilesFit, NEW p \in Processes, WritesFit(p), RenameTmp(p)
    PROVE  Fitting(p)
  <1>1. /\ proc[p] \in RunType /\ proc[p].pc = "rename" /\ UNCHANGED replaced
        /\ DOMAIN live = {"profiles", "credentials"} /\ Fits(p, proc[p])
    BY OwnRun DEF RenameTmp, At, Typed, SharedTyped, FilesType
  <1> DEFINE f == proc[p].file
  <1>2. /\ f \in {"profiles", "credentials"} /\ Text(p).state = "whole" /\ p \in Writers
        /\ tmp[f] = Text(p)
    BY <1>1, TextIsWhole DEF WritesFit
  <1>3. live' = [live EXCEPT ![f] = Text(p)]
    BY <1>2, Zenon DEF RenameTmp
  <1>4. CASE f = "profiles"
    <2>1. /\ live'.profiles = proc[p].new /\ live'.credentials = live.credentials
          /\ proc[p].new.state = "whole"
      BY <1>1, <1>2, <1>3, <1>4 DEF Text
    <2>2. FilesFit'
      BY <1>1, <2>1 DEF FilesFit, NeverHalfWritten
    <2>3. CASE p \in Desktops
      <3>1. proc'[p].pc \in {"registry", "unlock"}
        <4>1. \/ proc'[p] = Leaving(proc[p], TRUE)
              \/ proc'[p] = [proc[p] EXCEPT !.pc = "registry"]
          BY <1>2, <1>4, <2>3, <2>1, RenameTmp(p), RunOfRename, Zenon DEF Text
        <4>2. QED
          BY <1>1, <4>1, Zenon DEF Leaving, Blank, RunType
      <3>2. p \notin Clis \cup Engines
        BY <2>3, SharedProfilesAssumption
      <3>3. QED
        BY <2>2, <3>1, <3>2, WritesOfIdle DEF Fitting
    <2>4. CASE p \notin Desktops
      <3>1. proc'[p] = [proc[p] EXCEPT !.pc = "mirror"]
        BY <1>2, <1>4, <2>4, <2>1, RenameTmp(p), RunOfRename, Zenon DEF Text
      <3>2. /\ proc'[p].pc = "mirror" /\ proc'[p].new = proc[p].new /\ proc'[p].op = proc[p].op
        BY <1>1, <3>1 DEF RunType
      <3>3. WritesFit(p)'
        BY <1>1, <2>1, <3>2 DEF WritesFit
      <3>4. QED
        BY <2>2, <3>3, SMTT(40) DEF Fitting
    <2>5. QED
      BY <2>3, <2>4
  <1>5. CASE f = "credentials"
    <2>1. /\ live'.profiles = live.profiles /\ live'.credentials = proc[p].creds
          /\ proc[p].creds.state = "whole" /\ p \in Clis \cup Engines
      BY <1>1, <1>2, <1>3, <1>5 DEF Text, Fits, Writers
    <2>2. /\ p \in Clis => /\ proc[p].creds.able = live.credentials.able
                           /\ proc[p].creds.generation = live.credentials.generation
          /\ p \in Engines => proc[p].creds.able = 0 /\ proc[p].creds.generation = 0
          /\ proc[p].creds.mirror = ActiveKey(live.profiles)
      BY <1>1, <1>5 DEF WritesFit
    <2>3. FilesFit'
      BY <1>1, <2>1, <2>2, NotReplaced DEF FilesFit, NeverHalfWritten
    <2>4. proc'[p].pc = "unlock"
      <3>1. proc'[p] = Leaving(proc[p], TRUE)
        BY <1>2, <1>5, <2>1, RenameTmp(p), RunOfRename, Zenon DEF Text
      <3>2. QED
        BY <3>1, SMTT(40) DEF Leaving, Blank
    <2>5. WritesFit(p)'
      BY <2>1, <2>2, <2>4 DEF WritesFit, ActiveKey
    <2>6. QED
      BY <2>3, <2>5 DEF Fitting
  <1>6. QED
    BY <1>2, <1>4, <1>5

\* when the CLI copies the active profile and keeps the account,
LEMMA FitMirrorOfCli ==
    ASSUME Typed, FilesFit, NEW p \in Processes, WritesFit(p), MirrorOfCli(p)
    PROVE  Fitting(p)
  <1> DEFINE key == ActiveKey(proc[p].new)
             existing == IF live.credentials.state = "whole" THEN live.credentials ELSE EmptyCreds
             next == [existing EXCEPT !.mirror = key]
  <1>1. /\ proc[p] \in RunType /\ proc[p].pc = "mirror" /\ UNCHANGED <<live, replaced>>
        /\ live.profiles = proc[p].new /\ p \in Clis /\ p \notin Engines
    BY OwnRun, SharedProfilesAssumption DEF MirrorOfCli, At, files, ghosts, WritesFit
  <1>2. key = ActiveKey(live.profiles)
    BY <1>1
  <1>3. /\ existing \in CredsType /\ existing.state = "whole"
        /\ existing.able = live.credentials.able
        /\ existing.generation = live.credentials.generation
        /\ live.credentials.state = "absent" => live.credentials.mirror = None
    <2>1. CASE live.credentials.state = "whole"
      BY <2>1, FilesTyped
    <2>2. CASE live.credentials.state # "whole"
      <3>1. live.credentials = NoCreds
        BY <2>2, FilesTyped DEF FilesFit, NeverHalfWritten, CredsType
      <3>2. QED
        BY <2>2, <3>1, BlankTyped, NotReplaced DEF NoCreds, EmptyCreds, Creds
    <2>3. QED
      BY <2>1, <2>2
  <1> HIDE DEF existing, key
  <1>4. /\ next.state = "whole" /\ next.mirror = key
        /\ next.able = live.credentials.able /\ next.generation = live.credentials.generation
    BY <1>3 DEF CredsType
  <1> HIDE DEF next
  <1>5. next = EmptyCreds => /\ key = None /\ live.credentials.able = 0
                             /\ live.credentials.generation = 0
    BY <1>4 DEF EmptyCreds, Creds
  <1>6. /\ proc'[p].file = "credentials" /\ proc'[p].creds = next /\ proc'[p].new = proc[p].new
        /\ proc'[p].op = proc[p].op
        /\ proc'[p].pc = IF next # EmptyCreds THEN "open"
                         ELSE IF live.credentials.state = "absent" THEN "unlock" ELSE "unlink"
    <2> DEFINE pc == IF next # EmptyCreds THEN "open"
                     ELSE IF live.credentials.state = "absent" THEN "unlock" ELSE "unlink"
    <2>1. proc'[p] = [proc[p] EXCEPT
             !.file = "credentials", !.creds = next,
             !.wrote = key = None /\ live.credentials.state = "absent", !.pc = pc]
      BY RunOfMirrorOfCli, Zenon DEF existing, key, next
    <2> DEFINE wrote == key = None /\ live.credentials.state = "absent"
    <2>2. proc'[p] = [proc[p] EXCEPT !.file = "credentials", !.creds = next, !.wrote = wrote,
                                     !.pc = pc]
      BY <2>1
    <2> HIDE DEF wrote, pc
    <2>3. /\ proc'[p].file = "credentials" /\ proc'[p].creds = next /\ proc'[p].pc = pc
          /\ proc'[p].new = proc[p].new /\ proc'[p].op = proc[p].op
      BY <1>1, <2>2 DEF RunType
    <2>4. QED
      BY <2>3 DEF pc
  <1>7. proc[p].op = "upsert" => proc[p].new.active # None
    BY <1>1 DEF WritesFit
  <1>8. WritesFit(p)'
    <2>1. CASE proc'[p].pc = "open"
      BY <1>1, <1>2, <1>4, <1>6, <1>7, <2>1 DEF WritesFit, ActiveKey
    <2>2. CASE proc'[p].pc = "unlink"
      BY <1>1, <1>2, <1>5, <1>6, <2>2 DEF WritesFit, ActiveKey
    <2>3. CASE proc'[p].pc = "unlock"
      BY <1>1, <1>2, <1>3, <1>5, <1>6, <2>3 DEF WritesFit, ActiveKey
    <2>4. QED
      BY <1>6, <2>1, <2>2, <2>3
  <1>9. QED
    BY <1>1, <1>8, FilesStayFit DEF Fitting

\* when the engine copies the active profile,
LEMMA FitMirrorOfEngine ==
    ASSUME Typed, FilesFit, NEW p \in Processes, WritesFit(p), MirrorOfEngine(p)
    PROVE  Fitting(p)
  <1> DEFINE key == ActiveKey(proc[p].new)
             creds == Creds("whole", key, 0, 0)
             wrote == key = None /\ proc[p].op = "upsert"
             pc == IF key # None THEN "open"
                   ELSE IF proc[p].op = "remove" THEN "unlink" ELSE "unlock"
  <1>1. /\ proc[p] \in RunType /\ proc[p].pc = "mirror" /\ UNCHANGED <<live, replaced>>
        /\ live.profiles = proc[p].new /\ p \in Engines /\ p \notin Clis /\ Fits(p, proc[p])
    BY OwnRun, SharedProfilesAssumption DEF MirrorOfEngine, At, files, ghosts, WritesFit
  <1>2. key = ActiveKey(live.profiles)
    BY <1>1
  \* after an upsert there is an active profile, which has a key.
  <1>3. proc[p].op = "upsert" => proc[p].new.active # None /\ key # None
    <2>1. WellFormed(proc[p].new) /\ proc[p].new \in ProfilesType
      BY <1>1, RunTyped DEF Fits
    <2>2. proc[p].op = "upsert" => proc[p].new.active # None
      BY <1>1 DEF WritesFit
    <2>3. QED
      BY <2>1, <2>2 DEF WellFormed, Stored, ActiveKey, ProfilesType
  <1>4. /\ creds.state = "whole" /\ creds.mirror = key /\ creds.able = 0 /\ creds.generation = 0
    BY DEF Creds
  <1>5. proc'[p] = [proc[p] EXCEPT !.file = "credentials", !.creds = creds, !.wrote = wrote, !.pc = pc]
    BY RunOfMirrorOfEngine, Zenon
  <1> HIDE DEF key, creds, wrote, pc
  <1>6. /\ proc'[p].file = "credentials" /\ proc'[p].creds = creds /\ proc'[p].new = proc[p].new
        /\ proc'[p].op = proc[p].op /\ proc'[p].pc = pc /\ proc'[p].wrote = wrote
    BY <1>1, <1>5 DEF RunType
  <1>7. WritesFit(p)'
    <2>1. CASE pc = "open"
      BY <1>1, <1>2, <1>3, <1>4, <1>6, <2>1 DEF WritesFit, ActiveKey
    <2>2. CASE pc = "unlink"
      BY <1>1, <1>2, <1>6, <2>2 DEF WritesFit, ActiveKey, pc
    <2>3. CASE pc = "unlock"
      BY <1>1, <1>3, <1>6, <2>3, Zenon DEF WritesFit, wrote
    <2>4. QED
      BY <2>1, <2>2, <2>3 DEF pc
  <1>8. QED
    BY <1>1, <1>7, FilesStayFit DEF Fitting

\* when credentials.json is removed because no profile is active,
LEMMA FitUnlink ==
    ASSUME Typed, FilesFit, NEW p \in Processes, WritesFit(p), Unlink(p)
    PROVE  Fitting(p)
  <1>1. /\ proc[p].pc = "unlink" /\ UNCHANGED replaced
        /\ proc'[p] = Leaving(proc[p], TRUE)
        /\ live' = [live EXCEPT !.credentials = NoCreds]
        /\ ActiveKey(live.profiles) = None
    BY RunOfUnlink, Zenon DEF Unlink, WritesFit
  <1>2. live'.profiles = live.profiles /\ live'.credentials = NoCreds
    BY <1>1 DEF Typed, SharedTyped, FilesType
  <1>3. proc'[p].pc = "unlock"
    BY <1>1 DEF Leaving, Blank
  <1>4. /\ NoCreds.able = 0 /\ NoCreds.mirror = None /\ NoCreds.state = "absent"
    BY DEF NoCreds, Creds
  <1>5. FilesFit'
    BY <1>1, <1>2, <1>4, NotReplaced DEF FilesFit, NeverHalfWritten
  <1>6. WritesFit(p)'
    BY <1>1, <1>2, <1>3, <1>4, ZenonT(60) DEF WritesFit, ActiveKey
  <1>7. QED
    BY <1>5, <1>6 DEF Fitting

\* when the desktop copies its registry,
LEMMA FitDesktop ==
    ASSUME Typed, FilesFit, NEW p \in Processes, WritesFit(p),
           ReadRegistry(p) \/ SaveRegistry(p) \/ PruneRegistry(p) \/ FindGone(p) \/ CopyRegistry(p)
    PROVE  Fitting(p)
  <1>1. /\ proc[p] \in RunType /\ UNCHANGED <<live, replaced>>
        /\ p \in Desktops /\ p \notin Clis /\ p \notin Engines /\ Fits(p, proc[p])
        /\ live.profiles \in ProfilesType
    <2>1. UNCHANGED <<live, replaced>> /\ p \in Desktops
      BY Zenon DEF ReadRegistry, SaveRegistry, PruneRegistry, FindGone, CopyRegistry, files, ghosts
    <2>2. QED
      BY <2>1, OwnRun, FilesTyped, SharedProfilesAssumption
  <1>2. proc[p].file = "profiles"
    BY <1>1 DEF Fits
  <1>3. CASE ReadRegistry(p) \/ SaveRegistry(p) \/ PruneRegistry(p)
    <2>1. proc'[p].pc \in {"change", "copy"}
      <3>1. \E pc \in {"change", "copy"} : proc'[p] = [proc[p] EXCEPT !.pc = pc]
        BY <1>3, RunOfRegistry
      <3>2. QED
        BY <1>1, <3>1 DEF RunType
    <2>2. QED
      BY <1>1, <2>1, WritesOfIdle, FilesStayFit DEF Fitting
  <1>4. CASE FindGone(p)
    <2>1. PICK gone \in SUBSET Ids :
             proc'[p] = [proc[p] EXCEPT
                !.gone = gone, !.new = Pruned(live.profiles, gone),
                !.pc = IF gone = {} THEN "unlock"
                       ELSE IF live.profiles.state = "whole" THEN "open" ELSE "registry"]
      BY <1>4, RunOfFindGone, Zenon
    <2> DEFINE new == Pruned(live.profiles, gone)
               pc == IF gone = {} THEN "unlock"
                     ELSE IF live.profiles.state = "whole" THEN "open" ELSE "registry"
    <2>2. new.state = live.profiles.state
      BY <1>1, PrunedFits DEF Typed, SharedTyped
    <2>3. proc[p].op = "prune"
      BY <1>4, RunOfFindGone, Zenon
    <2> HIDE DEF new, pc
    <2>4. proc'[p] = [proc[p] EXCEPT !.gone = gone, !.new = new, !.pc = pc]
      BY <2>1 DEF new, pc
    <2>5. /\ proc'[p].pc = pc /\ proc'[p].new = new /\ proc'[p].gone = gone
          /\ proc'[p].op = "prune" /\ proc'[p].file = "profiles"
      BY <1>1, <1>2, <2>3, <2>4 DEF RunType
    <2>6. CASE pc = "open"
      <3>1. live.profiles.state = "whole"
        BY <2>6 DEF pc
      <3>2. new \in Updates(p)'
        <4>1. Pruned(live.profiles, gone)' = new
          BY <1>1 DEF Pruned, new
        <4>2. Updates(p)' = {Pruned(live.profiles, proc[p].gone)}'
          BY <1>1, <2>5 DEF Updates
        <4>3. QED
          BY <1>1, <2>5, <4>1, <4>2
      <3>3. WritesFit(p)'
        BY <2>2, <2>5, <2>6, <3>1, <3>2 DEF WritesFit
      <3>4. QED
        BY <1>1, <3>3, FilesStayFit DEF Fitting
    <2>7. CASE pc # "open"
      <3>1. proc'[p].pc \in {"unlock", "registry"}
        BY <2>5, <2>7 DEF pc
      <3>2. QED
        BY <1>1, <3>1, WritesOfIdle, FilesStayFit DEF Fitting
    <2>8. QED
      BY <2>6, <2>7
  <1>5. CASE CopyRegistry(p)
    <2> DEFINE new == Mirrored(BaseOfCopy)
    <2>1. proc'[p] = [proc[p] EXCEPT !.op = "copy", !.new = new, !.pc = "open"]
      BY <1>5, RunOfCopy, Zenon
    <2>2. new.state = "whole"
      BY MirroredFits DEF Typed
    <2>3. new' = new
      BY <1>1, <1>5, Zenon DEF CopyRegistry, Mirrored, BaseOfCopy, Clusters, Stored, EmptyProfiles
    <2>4. Mirrored(BaseOfCopy)' = new
      BY <2>3
    <2> HIDE DEF new
    <2>5. proc'[p].pc = "open" /\ proc'[p].new = new /\ proc'[p].op = "copy" /\ proc'[p].file = "profiles"
      BY <1>1, <1>2, <2>1 DEF RunType
    <2>6. Updates(p)' = {Mirrored(BaseOfCopy)'}
      BY <1>1, <2>5 DEF Updates
    <2>7. WritesFit(p)'
      BY <2>2, <2>4, <2>5, <2>6 DEF WritesFit
    <2>8. QED
      BY <1>1, <2>7, FilesStayFit DEF Fitting
  <1>6. QED
    BY <1>3, <1>4, <1>5

\* What the helper is about to store is whole and without a token that was replaced.
LEMMA FitPrepared ==
    ASSUME Typed, FilesFit, NEW p \in Processes, UNCHANGED <<live, replaced>>,
           NEW able \in {0, Fresh}, NEW mirror,
           proc'[p].pc = "put", proc'[p].creds = Creds("whole", mirror, able, Fresh),
           proc'[p].op \notin {"upsert"}
    PROVE  Fitting(p)
  <1>1. /\ proc'[p].creds.state = "whole" /\ proc'[p].creds.able = able
        /\ proc'[p].creds.generation = Fresh
    BY DEF Creds
  <1>2. WritesFit(p)'
    BY <1>1, NotReplaced DEF WritesFit
  <1>3. QED
    BY <1>2, FilesStayFit DEF Fitting

\* when the helper reads the account,
LEMMA FitReading ==
    ASSUME Typed, FilesFit, NEW p \in Processes, WritesFit(p),
           BeginLogin(p) \/ PollLogin(p) \/ CommitLogin(p) \/ SignOut(p) \/ Refresh(p)
    PROVE  Fitting(p)
  <1>1. /\ proc[p] \in RunType /\ UNCHANGED <<live, replaced>>
        /\ p \in Accounts /\ p \notin Clis \cup Engines
    <2>1. UNCHANGED <<live, replaced>> /\ p \in Accounts
      BY DEF BeginLogin, PollLogin, CommitLogin, SignOut, Refresh, Reading, files, ghosts
    <2>2. QED
      BY <2>1, OwnRun, SharedProfilesAssumption DEF Writers
  <1>2. ASSUME proc'[p].pc = "unlock" PROVE Fitting(p)
    BY <1>1, <1>2, WritesOfIdle, FilesStayFit DEF Fitting
  <1>3. ASSUME NEW able \in {0, Fresh}, proc[p].op # "upsert", proc'[p] = Putting(p, able)
        PROVE  Fitting(p)
    <2> DEFINE creds == Creds("whole", live.credentials.mirror, able, Fresh)
    <2>1. proc'[p] = [proc[p] EXCEPT !.pc = "put", !.creds = creds]
      BY <1>3 DEF Putting
    <2> HIDE DEF creds
    <2>2. proc'[p].pc = "put" /\ proc'[p].creds = creds /\ proc'[p].op = proc[p].op
      BY <1>1, <2>1 DEF RunType
    <2>3. QED
      BY <1>1, <1>3, <2>2, FitPrepared DEF creds
  <1>4. ASSUME proc'[p] = Failed(p) \/ proc'[p] = Left(p)
        PROVE  Fitting(p)
    <2>1. proc'[p].pc = "unlock"
      BY <1>1, <1>4, RunIsLeft
    <2>2. QED
      BY <1>2, <2>1
  <1>5. CASE BeginLogin(p)
    <2>1. CASE proc'[p] = [proc[p] EXCEPT !.op = "pending", !.pc = "unlock",
                                         !.generation = live.credentials.generation]
      <3>1. proc'[p].pc = "unlock"
        BY <1>1, <2>1 DEF RunType
      <3>2. QED
        BY <1>2, <3>1
    <2>2. QED
      BY <1>4, <1>5, <2>1, RunOfBeginLogin, Zenon
  <1>6. CASE PollLogin(p)
    BY <1>4, <1>6, RunOfPollLogin
  <1>7. CASE CommitLogin(p)
    <2>1. proc[p].op = "commit" /\ (proc'[p] = Putting(p, Fresh) \/ proc'[p] = Failed(p))
      BY <1>7, RunOfCommitLogin
    <2>2. QED
      BY <1>3, <1>4, <2>1
  <1>8. CASE SignOut(p)
    <2>1. proc[p].op = "signout" /\ (proc'[p] = Putting(p, 0) \/ proc'[p] = Failed(p))
      BY <1>8, RunOfSignOut
    <2>2. QED
      BY <1>3, <1>4, <2>1
  <1>9. CASE Refresh(p)
    <2>1. /\ proc[p].op = "refresh"
          /\ \/ proc'[p] = Failed(p) \/ proc'[p] = Left(p)
             \/ proc'[p] = Putting(p, 0)
             \/ /\ proc'[p] = [proc[p] EXCEPT !.creds = live.credentials, !.pc = "exchange"]
                /\ live.credentials.able # 0
      BY <1>9, RunOfRefresh, Zenon
    <2>2. CASE /\ proc'[p] = [proc[p] EXCEPT !.creds = live.credentials, !.pc = "exchange"]
               /\ live.credentials.able # 0
      <3>1. /\ proc'[p].pc = "exchange" /\ proc'[p].creds = live.credentials
            /\ proc'[p].op = proc[p].op
        BY <1>1, <2>2 DEF RunType
      <3>2. WritesFit(p)'
        BY <1>1, <2>1, <2>2, <3>1 DEF WritesFit
      <3>3. QED
        BY <1>1, <3>2, FilesStayFit DEF Fitting
    <2>3. QED
      BY <1>3, <1>4, <2>1, <2>2
  <1>10. QED
    BY <1>5, <1>6, <1>7, <1>8, <1>9

\* when it exchanges its token
LEMMA FitExchange ==
    ASSUME Typed, FilesFit, NEW p \in Processes, WritesFit(p), Exchange(p)
    PROVE  Fitting(p)
  <1>1. /\ proc[p] \in RunType /\ UNCHANGED <<live, replaced>> /\ proc[p].pc = "exchange"
        /\ p \in Accounts /\ p \notin Clis \cup Engines /\ Fits(p, proc[p])
    <2>1. UNCHANGED <<live, replaced>> /\ proc[p].pc = "exchange" /\ p \in Accounts
      BY RunOfExchange, Zenon DEF Exchange, files, ghosts
    <2>2. QED
      BY <2>1, OwnRun, SharedProfilesAssumption DEF Writers
  <1> DEFINE c == proc[p].creds
  <1>2. /\ c = live.credentials /\ c.able # 0 /\ c.state = "whole" /\ c.generation # 0
        /\ c.able \notin replaced /\ c \in CredsType
    <2>1. c = live.credentials /\ c.able # 0
      BY <1>1 DEF WritesFit
    <2>2. live.credentials \in CredsType /\ live.credentials.state # "torn"
      BY FilesTyped DEF FilesFit, NeverHalfWritten
    <2>3. live.credentials.state # "absent"
      BY <2>1 DEF FilesFit, NoCreds, Creds
    <2>4. QED
      BY <2>1, <2>2, <2>3 DEF FilesFit, CredsType
  <1>3. CASE proc'[p] = Left(p)
    <2>1. proc'[p].pc = "unlock"
      BY <1>1, <1>3, RunIsLeft
    <2>2. QED
      BY <1>1, <2>1, WritesOfIdle, FilesStayFit DEF Fitting
  <1>4. ASSUME NEW able \in {0, Fresh, c.able}, NEW generation \in {Fresh, c.generation},
               proc'[p] = [proc[p] EXCEPT !.pc = "put",
                             !.creds = [c EXCEPT !.able = able, !.generation = generation]]
        PROVE  Fitting(p)
    <2> DEFINE creds == [c EXCEPT !.able = able, !.generation = generation]
    <2>1. creds.state = "whole" /\ creds.able = able /\ creds.generation = generation
      BY <1>2 DEF CredsType
    <2>2. proc'[p] = [proc[p] EXCEPT !.pc = "put", !.creds = creds]
      BY <1>4
    <2> HIDE DEF creds
    <2>3. proc'[p].pc = "put" /\ proc'[p].op = proc[p].op /\ proc'[p].creds = creds
      BY <1>1, <2>2 DEF RunType
    <2>4. able \notin replaced /\ generation # 0
      BY <1>2, NotReplaced
    <2>5. WritesFit(p)'
      BY <1>1, <2>1, <2>3, <2>4 DEF WritesFit
    <2>6. QED
      BY <1>1, <2>5, FilesStayFit DEF Fitting
  <1>5. QED
    BY <1>3, <1>4, RunOfExchange, Zenon

\* and when it replaces credentials.json.
LEMMA FitPut ==
    ASSUME Typed, FilesFit, NEW p \in Processes, WritesFit(p), PutAccount(p)
    PROVE  Fitting(p)
  <1>1. /\ proc[p] \in RunType /\ proc[p].pc = "put" /\ p \in Accounts
        /\ p \notin Clis \cup Engines
        /\ proc'[p] = Left(p)
    BY OwnRun, RunOfPut, SharedProfilesAssumption DEF Writers
  <1> DEFINE next == proc[p].creds
  <1>2. /\ next.state = "whole" /\ next.able \notin replaced /\ (next.able # 0 => next.generation # 0)
    BY <1>1 DEF WritesFit
  <1>3. /\ live'.profiles = live.profiles /\ live'.credentials = next
        /\ replaced' = replaced \cup ({live.credentials.able} \ {next.able, 0})
    <2>1. /\ live' = [live EXCEPT !.credentials = next]
          /\ replaced' = replaced \cup ({live.credentials.able} \ {next.able, 0})
      BY DEF PutAccount, Account
    <2>2. QED
      BY <2>1 DEF Typed, SharedTyped, FilesType
  <1>4. FilesFit'
    BY <1>2, <1>3 DEF FilesFit, NeverHalfWritten
  <1>5. proc'[p].pc = "unlock"
    BY <1>1, RunIsLeft
  <1>6. QED
    BY <1>1, <1>4, <1>5, WritesOfIdle DEF Fitting

\* In order, a step of a process that works by the rules keeps the files in order.
LEMMA InOrderStep ==
    ASSUME Typed, LockExcludes, InOrder, NEW p \in Processes, Act(p)
    PROVE  InOrder'
  <1> SUFFICES ASSUME orderly' PROVE FilesFit' /\ \A q \in Processes : WritesFit(q)'
    BY DEF InOrder, Processes, Writers
  <1>1. orderly /\ FilesFit /\ WritesFit(p)
    BY OrderlyStays DEF InOrder
  <1>2. Fitting(p)
    BY <1>1, FitStart, FitRead, FitFill, FitRename, FitMirrorOfCli, FitMirrorOfEngine, FitUnlink,
       FitDesktop, FitReading, FitExchange, FitPut DEF Act, Step
  <1>3. QED
    BY <1>2, WritesOfOthers DEF Fitting

--------------------------------------------------------------------------------
(* The generations of the account.                                           *)

\* In order, and as long as the engine drops none, only the helper changes the account.
LEMMA AccountMoves ==
    ASSUME Typed, InOrder, orderly', ~wiped', NEW p \in Processes, Act(p)
    PROVE  /\ orderly /\ ~wiped
           /\ \/ PutAccount(p)
              \/ /\ live'.credentials.able = live.credentials.able
                 /\ live'.credentials.generation = live.credentials.generation
  <1>1. /\ orderly /\ FilesFit /\ WritesFit(p) /\ proc[p] \in RunType /\ Fits(p, proc[p])
        /\ DOMAIN live = {"profiles", "credentials"}
    BY OrderlyStays, OwnRun DEF InOrder, Typed, SharedTyped, FilesType
  <1>2. ~wiped
    BY FilesChange, Zenon DEF OpenTmp, FillTmp, RenameTmp, Unlink, PutAccount, ghosts
  <1>3. CASE UNCHANGED live
    BY <1>1, <1>2, <1>3
  <1>4. CASE OpenTmp(p) \/ FillTmp(p)
    <2>1. UNCHANGED live
      BY <1>1, <1>4 DEF OpenTmp, FillTmp, WritesFit, At
    <2>2. QED
      BY <1>3, <2>1
  <1> DEFINE f == proc[p].file
  <1>5. CASE RenameTmp(p)
    <2>1. /\ proc[p].pc = "rename" /\ f \in {"profiles", "credentials"} /\ Text(p).state = "whole"
          /\ p \in Writers /\ tmp[f] = Text(p)
      BY <1>1, <1>5, TextIsWhole DEF RenameTmp, At, WritesFit
    <2>2. /\ live' = [live EXCEPT ![f] = Text(p)]
          /\ f = "credentials" /\ p \in Engines => live.credentials.generation = 0
      BY <1>5, <2>1, Zenon DEF RenameTmp
    <2>3. CASE f = "profiles"
      BY <1>1, <1>2, <2>2, <2>3
    <2>4. CASE f = "credentials"
      <3>1. live'.credentials = proc[p].creds /\ p \in Clis \cup Engines
        BY <1>1, <2>1, <2>2, <2>4 DEF Text, Fits, Writers
      <3>2. p \in Engines => live.credentials.generation = 0 /\ live.credentials.able = 0
        BY <1>1, <2>2, <2>4 DEF FilesFit
      <3>3. QED
        BY <1>1, <1>2, <2>1, <2>4, <3>1, <3>2 DEF WritesFit
    <2>5. QED
      BY <2>1, <2>3, <2>4
  <1>6. CASE Unlink(p)
    <2>1. /\ proc[p].pc = "unlink" /\ live'.credentials = NoCreds
          /\ p \in Engines => live.credentials.generation = 0
          /\ p \in Clis \cup Engines
      BY <1>1, <1>6, Zenon DEF Unlink, At, Fits, Processes, Writers
    <2>2. live.credentials.generation = 0 /\ live.credentials.able = 0
      BY <1>1, <2>1 DEF WritesFit, FilesFit
    <2>3. QED
      BY <1>1, <1>2, <2>1, <2>2 DEF NoCreds, Creds
  <1>7. QED
    BY <1>1, <1>2, <1>3, <1>4, <1>5, <1>6, FilesChange

\* The generation that is stored grows with what the helper stores.
LEMMA PutMoves ==
    ASSUME Typed, NEW p \in Processes, PutAccount(p)
    PROVE  /\ live'.credentials = proc[p].creds
           /\ proc[p].creds.generation \in Nat /\ live.credentials.generation \in Nat
  <1>1. live'.credentials = proc[p].creds
    BY DEF PutAccount, Typed, SharedTyped, FilesType
  <1>2. /\ proc[p].creds.generation \in 0..issued /\ live.credentials.generation \in 0..issued
        /\ issued \in Nat
    BY OwnRun, RunTyped, FilesTyped DEF CredsType
  <1>3. QED
    BY <1>1, <1>2

\* A sign-in is overtaken by a sign-out that ends, and by a new generation.
LEMMA LateMoves ==
    ASSUME Typed, NEW p \in Processes, Act(p), NEW q \in Processes \ {p}
    PROVE  \/ proc'[q].late = proc[q].late
           \/ SignIn(q) /\ Unlock(p) /\ proc[p].op = "signout"
           \/ /\ SignIn(q) /\ PutAccount(p)
              /\ proc[p].creds.generation # live.credentials.generation
  <1>1. proc \in [Processes -> RunType] /\ proc[q] \in RunType
    BY OwnRun
  <1>2. CASE ~Unlock(p) /\ ~RenameTmp(p) /\ ~Unlink(p) /\ ~PutAccount(p)
    BY <1>1, <1>2, OwnRunOnly
  <1>3. ASSUME NEW r \in RunType
        PROVE  ~(r.op \in {"pending", "commit"}) => Overtaken(r).late = r.late
    BY DEF Overtaken, RunType
  <1>4. CASE Unlock(p)
    <2>1. \/ proc'[q] = proc[q]
          \/ proc[p].op = "signout" /\ proc'[q] = Overtaken(proc[q])
      BY <1>1, <1>4 DEF Unlock
    <2>2. QED
      BY <1>1, <1>3, <1>4, <2>1 DEF SignIn
  <1>5. ASSUME NEW f PROVE Moved(f, p)[q].late = proc[q].late /\ Moved(f, p)[q].op = proc[q].op
                           /\ Moved(f, p)[q] \in RunType
    <2>1. PICK fd \in {"none", "tmp", "live", "gone"} : Moved(f, p)[q] = [proc[q] EXCEPT !.fd = fd]
      BY <1>1, MovedKeeps
    <2>2. Moved(f, p)[q] \in RunType
      BY <1>1, MovedKeeps, Zenon
    <2>3. QED
      BY <1>1, <2>1, <2>2 DEF RunType
  <1>6. CASE RenameTmp(p)
    <2>1. proc'[q] \in {proc[q], Moved(proc[p].file, p)[q]}
      BY <1>1, <1>6, Zenon DEF RenameTmp, Moved
    <2>2. QED
      BY <1>5, <2>1
  <1>7. CASE Unlink(p)
    <2>1. proc'[q] \in {proc[q], [proc[q] EXCEPT !.fd = "gone"]}
      BY <1>1, <1>7 DEF Unlink
    <2>2. proc'[q].late = proc[q].late
      BY <1>1, <2>1 DEF RunType
    <2>3. QED
      BY <2>2
  <1>8. CASE PutAccount(p)
    <2> DEFINE moved == Moved("credentials", p)[q]
    <2>1. proc'[q] = IF proc[p].creds.generation # live.credentials.generation
                     THEN Overtaken(moved) ELSE moved
      BY <1>8 DEF PutAccount, Account
    <2>2. moved.late = proc[q].late /\ moved.op = proc[q].op /\ moved \in RunType
      BY <1>5
    <2> HIDE DEF moved
    <2>3. QED
      BY <1>3, <1>8, <2>1, <2>2 DEF SignIn
  <1>9. QED
    BY <1>2, <1>4, <1>6, <1>7, <1>8

\* A sign-in is overtaken by the steps of the others as it should be,
LEMMA LoginOfOthers ==
    ASSUME Typed, LockExcludes, InOrder, Generations, orderly', ~wiped',
           NEW p \in Processes, Act(p), NEW q \in Accounts \ {p}
    PROVE  LoginFits(q)'
  <1>1. /\ orderly /\ ~wiped /\ LoginFits(q) /\ Kept(q) /\ q \in Processes
        /\ proc[q] \in RunType /\ proc[q].generation \in Nat
    <2>1. q \in Processes
      BY DEF Processes
    <2>2. proc[q] \in RunType /\ Kept(q)
      BY <2>1, OthersKept
    <2>3. proc[q].generation \in 0..issued /\ issued \in Nat
      BY <2>1, <2>2, RunTyped, OwnRun
    <2>4. QED
      BY <2>1, <2>2, <2>3, AccountMoves DEF Generations
  <1>2. /\ proc'[q].pc = proc[q].pc /\ proc'[q].op = proc[q].op /\ proc'[q].creds = proc[q].creds
        /\ proc'[q].generation = proc[q].generation /\ SignIn(q)' = SignIn(q)
    BY <1>1 DEF Kept, SignIn
  <1>3. CASE PutAccount(p)
    <2>1. /\ proc[p].pc = "put" /\ p \in Accounts /\ Working(p)
      BY <1>3, RunOfPut DEF Working
    <2>2. /\ live'.credentials.generation = proc[p].creds.generation
          /\ live'.credentials.generation >= live.credentials.generation
          /\ live'.credentials.generation \in Nat /\ live.credentials.generation \in Nat
      BY <1>1, <1>3, <2>1, PutMoves DEF Generations, LoginFits
    <2>3. proc[q].pc # "put"
      BY <1>1, <2>1, OnlyOneWorks DEF Working
    <2>4. \/ proc'[q].late = proc[q].late
          \/ SignIn(q) /\ proc[p].creds.generation # live.credentials.generation
      BY <1>1, <1>3, LateMoves, Zenon DEF Unlock, PutAccount, At
    <2>5. CASE proc'[q].late = proc[q].late
      BY <1>1, <1>2, <2>2, <2>3, <2>5 DEF LoginFits
    <2>6. CASE SignIn(q) /\ proc[p].creds.generation # live.credentials.generation
      BY <1>1, <1>2, <2>2, <2>3, <2>6 DEF LoginFits, SignIn
    <2>7. QED
      BY <2>4, <2>5, <2>6
  <1>4. CASE ~PutAccount(p)
    <2>1. live'.credentials.generation = live.credentials.generation
      BY <1>4, AccountMoves
    <2>2. \/ proc'[q].late = proc[q].late
          \/ SignIn(q) /\ Unlock(p) /\ proc[p].op = "signout"
      BY <1>1, <1>4, LateMoves
    <2>3. CASE proc'[q].late = proc[q].late
      BY <1>1, <1>2, <2>1, <2>3 DEF LoginFits
    <2>4. CASE SignIn(q) /\ Unlock(p) /\ proc[p].op = "signout"
      <3>1. p \in Accounts
        BY <2>4, OwnRun DEF Fits, Processes, Writers
      <3>2. proc[q].generation < live.credentials.generation
        BY <1>1, <2>4, <3>1 DEF Generations, SignedOut, Unlock, At
      <3>3. QED
        BY <1>1, <1>2, <2>1, <2>4, <3>2 DEF LoginFits, SignIn
    <2>5. QED
      BY <2>2, <2>3, <2>4
  <1>5. QED
    BY <1>3, <1>4

\* The steps of a run that neither begins to store, to exchange or to sign in.
LEMMA LoginQuiet ==
    ASSUME NEW p \in Accounts, LoginFits(p),
           live'.credentials.generation = live.credentials.generation,
           proc'[p].pc \notin {"put", "exchange"}, proc'[p].late = proc[p].late,
           proc'[p].generation = proc[p].generation,
           \/ proc'[p].op = proc[p].op /\ (proc'[p].pc = "browser" => proc'[p].op = "pending")
           \/ proc'[p].op = "failed" /\ proc'[p].pc # "browser"
           \/ SignIn(p) /\ SignIn(p)' /\ proc'[p].pc # "browser"
    PROVE  LoginFits(p)'
  BY DEF LoginFits, SignIn

\* A run at its beginning and at its end.
LEMMA LoginBlank ==
    ASSUME NEW p \in Accounts, ~SignIn(p)', ~proc'[p].late,
           proc'[p].pc \notin {"browser", "exchange", "put"}
    PROVE  LoginFits(p)'
  BY DEF LoginFits

\* and its own steps keep in order what it has noted.
LEMMA LoginOfOwn ==
    ASSUME Typed, LockExcludes, InOrder, Generations, orderly', ~wiped',
           NEW p \in Accounts, Act(p)
    PROVE  LoginFits(p)'
  <1>1. /\ p \in Processes /\ proc \in [Processes -> RunType] /\ proc[p] \in RunType
        /\ Fits(p, proc[p]) /\ issued \in Nat
        /\ p \notin Clis /\ p \notin Engines /\ p \notin Desktops
    <2>1. p \in Processes
      BY DEF Processes
    <2>2. QED
      BY <2>1, OwnRun, SharedProfilesAssumption DEF Writers
  <1>2. /\ orderly /\ ~wiped /\ LoginFits(p) /\ WritesFit(p)
        /\ PutAccount(p) \/ live'.credentials.generation = live.credentials.generation
    BY <1>1, AccountMoves DEF Generations, InOrder
  <1>3. /\ live.credentials.generation \in Nat /\ live.credentials.generation < Fresh
        /\ proc[p].generation \in Nat
    <2>1. live.credentials.generation \in 0..issued /\ proc[p].generation \in 0..issued
      BY <1>1, FilesTyped, RunTyped DEF CredsType
    <2>2. QED
      BY <1>1, <2>1 DEF Fresh
  <1>4. CASE StartCli(p) \/ StartEngine(p) \/ StartDesktop(p) \/ StartAccount(p)
    <2>1. StartAccount(p)
      BY <1>1, <1>4, Zenon DEF StartCli, StartEngine, StartDesktop
    <2>2. PICK op \in {"login", "refresh", "signout"} :
             proc' = [proc EXCEPT ![p] = [Blank EXCEPT !.pc = "flock", !.op = op]]
      BY <2>1, Zenon DEF StartAccount, Start
    <2>3. proc'[p] = [Blank EXCEPT !.pc = "flock", !.op = op]
      BY <1>1, <2>2
    <2>4. proc'[p].pc = "flock" /\ proc'[p].op = op /\ proc'[p].late = FALSE
      BY <2>3 DEF Blank
    <2>5. QED
      BY <2>4, LoginBlank DEF SignIn
  <1>5. CASE GiveUp(p) \/ AbandonLogin(p) \/ Die(p)
    <2>1. /\ proc'[p].pc \in {"done", "dead"} /\ proc'[p].op = "none" /\ proc'[p].late = FALSE
      BY <1>1, <1>5 DEF GiveUp, AbandonLogin, Die, Ended, Blank
    <2>2. QED
      BY <2>1, LoginBlank DEF SignIn
  <1>6. CASE Unlock(p)
    <2>1. CASE proc[p].op = "pending"
      <3>1. proc'[p] = [proc[p] EXCEPT !.pc = "browser", !.holds = FALSE]
        BY <1>1, <1>6, <2>1 DEF Unlock
      <3>2. /\ proc'[p].pc = "browser" /\ proc'[p].op = "pending" /\ proc'[p].late = proc[p].late
            /\ proc'[p].generation = proc[p].generation
        BY <1>1, <2>1, <3>1 DEF RunType
      <3>3. QED
        BY <1>2, <1>6, <2>1, <3>2, LoginQuiet, Zenon DEF Unlock, PutAccount, At
    <2>2. CASE proc[p].op # "pending"
      <3>1. proc'[p] = [Blank EXCEPT !.pc = "done"]
        BY <1>1, <1>6, <2>2 DEF Unlock
      <3>2. proc'[p].pc = "done" /\ proc'[p].op = "none" /\ proc'[p].late = FALSE
        BY <3>1 DEF Blank
      <3>3. QED
        BY <3>2, LoginBlank DEF SignIn
    <2>3. QED
      BY <2>1, <2>2
  <1>7. CASE TakeLock(p) \/ TakeFlock(p)
    <2>1. \/ /\ proc'[p] = [proc[p] EXCEPT !.pc = "read", !.holds = TRUE] /\ proc[p].pc = "lock"
          \/ /\ proc'[p] = [proc[p] EXCEPT !.pc = "lock"] /\ proc[p].pc = "flock"
      BY <1>1, <1>7, Zenon DEF TakeLock, TakeFlock, At
    <2>2. /\ proc'[p].pc \in {"read", "lock"} /\ proc'[p].op = proc[p].op
          /\ proc'[p].late = proc[p].late /\ proc'[p].generation = proc[p].generation
          /\ proc[p].pc # "put"
      BY <1>1, <2>1, ZenonT(60) DEF RunType
    <2>3. QED
      BY <1>2, <2>2, LoginQuiet DEF PutAccount, At
  <1>8. CASE WaitForUser(p)
    <2>1. PICK op \in {"pending", "commit"} : proc'[p] = [proc[p] EXCEPT !.pc = "flock", !.op = op]
      BY <1>1, <1>8, RunOfWait, Zenon
    <2>2. /\ proc'[p].pc = "flock" /\ proc'[p].op = op /\ proc'[p].late = proc[p].late
          /\ proc'[p].generation = proc[p].generation
      BY <1>1, <2>1 DEF RunType
    <2>3. proc[p].pc = "browser" /\ SignIn(p)
      BY <1>2, <1>8 DEF WaitForUser, At, LoginFits
    <2>4. QED
      BY <1>2, <2>2, <2>3, LoginQuiet DEF PutAccount, At, SignIn
  <1> DEFINE stored == live.credentials.generation
  <1>9. ASSUME proc'[p] = Failed(p) \/ proc'[p] = Left(p), ~PutAccount(p)
        PROVE  LoginFits(p)'
    <2>1. /\ proc'[p].pc = "unlock" /\ proc'[p].op \in {proc[p].op, "failed"}
          /\ proc'[p].late = proc[p].late /\ proc'[p].generation = proc[p].generation
      BY <1>1, <1>9, RunIsLeft
    <2>2. QED
      BY <1>2, <1>9, <2>1, LoginQuiet
  <1>10. ASSUME NEW able, ~PutAccount(p), proc'[p] = Putting(p, able),
                proc[p].op = "commit" => stored = proc[p].generation
         PROVE  LoginFits(p)'
    <2> DEFINE creds == Creds("whole", live.credentials.mirror, able, Fresh)
    <2>1. creds.generation = Fresh
      BY DEF Creds
    <2>2. proc'[p] = [proc[p] EXCEPT !.pc = "put", !.creds = creds]
      BY <1>10 DEF Putting
    <2> HIDE DEF creds
    <2>3. /\ proc'[p].pc = "put" /\ proc'[p].creds = creds /\ proc'[p].op = proc[p].op
          /\ proc'[p].late = proc[p].late /\ proc'[p].generation = proc[p].generation
      BY <1>1, <2>2 DEF RunType
    <2>4. Fresh \in Nat /\ live'.credentials.generation = stored
      BY <1>1, <1>2, <1>10 DEF Fresh
    <2>5. QED
      BY <1>2, <1>3, <1>10, <2>1, <2>3, <2>4 DEF LoginFits, SignIn
  <1>11. ~PutAccount(p) \/ proc[p].pc = "put"
    BY Zenon DEF PutAccount, At
  <1>12. CASE BeginLogin(p)
    <2>1. /\ proc[p].op = "login" /\ proc[p].pc = "read"
          /\ \/ proc'[p] = Failed(p)
             \/ proc'[p] = [proc[p] EXCEPT !.op = "pending", !.pc = "unlock", !.generation = stored]
      BY <1>1, <1>12, RunOfBeginLogin, Zenon
    <2>2. CASE proc'[p] = Failed(p)
      BY <1>9, <1>11, <2>1, <2>2
    <2>3. CASE proc'[p] = [proc[p] EXCEPT !.op = "pending", !.pc = "unlock", !.generation = stored]
      <3>1. /\ proc'[p].pc = "unlock" /\ proc'[p].op = "pending" /\ proc'[p].generation = stored
            /\ proc'[p].late = proc[p].late
        BY <1>1, <2>3 DEF RunType
      <3>2. QED
        BY <1>2, <1>3, <1>11, <2>1, <3>1 DEF LoginFits
    <2>4. QED
      BY <2>1, <2>2, <2>3
  <1>13. CASE PollLogin(p)
    BY <1>1, <1>9, <1>11, <1>13, RunOfPollLogin
  <1>14. CASE CommitLogin(p)
    <2>1. /\ proc[p].pc = "read"
          /\ \/ proc'[p] = Putting(p, Fresh) /\ stored = proc[p].generation
             \/ proc'[p] = Failed(p)
      BY <1>1, <1>14, RunOfCommitLogin
    <2>2. QED
      BY <1>9, <1>10, <1>11, <2>1
  <1>15. CASE SignOut(p)
    <2>1. /\ proc[p].pc = "read" /\ proc[p].op = "signout"
          /\ proc'[p] = Putting(p, 0) \/ proc'[p] = Failed(p)
      BY <1>1, <1>15, RunOfSignOut
    <2>2. QED
      BY <1>9, <1>10, <1>11, <2>1
  <1>16. CASE Refresh(p)
    <2>1. /\ proc[p].op = "refresh" /\ proc[p].pc = "read"
          /\ \/ proc'[p] = Failed(p) \/ proc'[p] = Left(p)
             \/ proc'[p] = Putting(p, 0)
             \/ proc'[p] = [proc[p] EXCEPT !.creds = live.credentials, !.pc = "exchange"]
      BY <1>1, <1>16, RunOfRefresh, Zenon
    <2>2. CASE proc'[p] = [proc[p] EXCEPT !.creds = live.credentials, !.pc = "exchange"]
      <3>1. /\ proc'[p].pc = "exchange" /\ proc'[p].op = "refresh" /\ proc'[p].late = proc[p].late
        BY <1>1, <2>1, <2>2 DEF RunType
      <3>2. QED
        BY <3>1 DEF LoginFits, SignIn
    <2>3. QED
      BY <1>9, <1>10, <1>11, <2>1, <2>2
  <1>17. CASE Exchange(p)
    <2>1. /\ proc[p].pc = "exchange" /\ proc[p].op = "refresh" /\ proc[p].creds = live.credentials
      BY <1>1, <1>2, <1>17, RunOfExchange, Zenon DEF LoginFits, WritesFit
    <2>2. CASE proc'[p] = Left(p)
      BY <1>9, <1>11, <2>1, <2>2
    <2>3. ASSUME NEW able, NEW generation \in {Fresh, proc[p].creds.generation},
                 proc'[p] = [proc[p] EXCEPT !.pc = "put",
                               !.creds = [proc[p].creds EXCEPT !.able = able,
                                                               !.generation = generation]]
          PROVE  LoginFits(p)'
      <3> DEFINE creds == [proc[p].creds EXCEPT !.able = able, !.generation = generation]
      <3>1. creds.generation = generation
        BY <1>1, RunTyped DEF CredsType
      <3>2. proc'[p] = [proc[p] EXCEPT !.pc = "put", !.creds = creds]
        BY <2>3
      <3> HIDE DEF creds
      <3>3. proc'[p].pc = "put" /\ proc'[p].creds = creds /\ proc'[p].op = "refresh"
        BY <1>1, <2>1, <3>2 DEF RunType
      <3>4. live'.credentials.generation = stored /\ generation >= stored
        BY <1>1, <1>2, <1>3, <1>11, <2>1, <2>3 DEF Fresh
      <3>5. QED
        BY <3>1, <3>3, <3>4 DEF LoginFits, SignIn
    <2>4. CASE proc'[p] # Left(p)
      <3>1. PICK able \in {0, Fresh, proc[p].creds.able},
                 generation \in {Fresh, proc[p].creds.generation} :
                    proc'[p] = [proc[p] EXCEPT !.pc = "put",
                                  !.creds = [proc[p].creds EXCEPT !.able = able,
                                                                  !.generation = generation]]
        BY <1>1, <1>17, <2>4, RunOfExchange, Zenon
      <3>2. QED
        BY <2>3, <3>1, Zenon
    <2>5. QED
      BY <2>2, <2>4, SMTT(40)
  <1>18. CASE PutAccount(p)
    <2>1. proc'[p] = Left(p) /\ proc[p].pc = "put"
      BY <1>1, <1>18, RunOfPut
    <2>2. /\ proc'[p].pc = "unlock" /\ proc'[p].op = proc[p].op /\ proc'[p].late = proc[p].late
          /\ proc'[p].generation = proc[p].generation
      BY <1>1, <2>1, RunIsLeft
    <2>3. /\ live'.credentials.generation >= stored /\ live'.credentials.generation \in Nat
      BY <1>1, <1>2, <1>18, <2>1, PutMoves, SMTT(40) DEF LoginFits
    <2>4. QED
      BY <1>2, <1>3, <2>2, <2>3 DEF LoginFits, SignIn
  <1>19. ~(GoUnlocked(p) \/ SeesStale(p) \/ Steal(p) \/ OpenTmp(p) \/ FillTmp(p) \/ RenameTmp(p)
           \/ ReadProfiles(p) \/ MirrorOfCli(p) \/ MirrorOfEngine(p) \/ Unlink(p) \/ ReadRegistry(p)
           \/ SaveRegistry(p) \/ FindGone(p) \/ PruneRegistry(p) \/ CopyRegistry(p))
    BY <1>1, Zenon DEF GoUnlocked, SeesStale, Steal, OpenTmp, FillTmp, RenameTmp, ReadProfiles, MirrorOfCli,
                MirrorOfEngine, Unlink, ReadRegistry, SaveRegistry, FindGone, PruneRegistry,
                CopyRegistry, At, Fits
  <1>20. QED
    BY <1>4, <1>5, <1>6, <1>7, <1>8, <1>12, <1>13, <1>14, <1>15, <1>16, <1>17, <1>18, <1>19
       DEF Act, Step

\* A run that does not work on the files neither begins to sign in nor to sign out.
LEMMA SignInBegins ==
    ASSUME Typed, NEW p \in Accounts, Act(p), ~Working(p), LoginFits(p), SignIn(p)'
    PROVE  SignIn(p) /\ proc'[p].generation = proc[p].generation
  <1>1. /\ p \in Processes /\ proc \in [Processes -> RunType] /\ proc[p] \in RunType
        /\ Fits(p, proc[p]) /\ p \notin Clis /\ p \notin Engines /\ p \notin Desktops
    <2>1. p \in Processes
      BY DEF Processes
    <2>2. QED
      BY <2>1, OwnRun, SharedProfilesAssumption DEF Writers
  <1>2. CASE StartCli(p) \/ StartEngine(p) \/ StartDesktop(p) \/ StartAccount(p)
    <2>1. proc'[p].op \in {"login", "refresh", "signout"}
      BY <1>1, <1>2, RunOfStart, Zenon
    <2>2. QED
      BY <2>1 DEF SignIn
  <1>3. CASE GiveUp(p) \/ AbandonLogin(p) \/ Die(p)
    BY <1>1, <1>3 DEF GiveUp, AbandonLogin, Die, Ended, Blank, SignIn
  <1>4. CASE TakeLock(p) \/ TakeFlock(p)
    <2>1. \/ proc'[p] = [proc[p] EXCEPT !.pc = "read", !.holds = TRUE]
          \/ proc'[p] = [proc[p] EXCEPT !.pc = "lock"]
      BY <1>1, <1>4, Zenon DEF TakeLock, TakeFlock, At
    <2>2. QED
      BY <1>1, <2>1, ZenonT(60) DEF RunType, SignIn
  <1>5. CASE WaitForUser(p)
    <2>1. PICK op \in {"pending", "commit"} : proc'[p] = [proc[p] EXCEPT !.pc = "flock", !.op = op]
      BY <1>1, <1>5, RunOfWait, Zenon
    <2>2. proc'[p].generation = proc[p].generation
      BY <1>1, <2>1, SMTT(40) DEF RunType
    <2>3. QED
      BY <1>5, <2>2, SMTT(40) DEF WaitForUser, At, LoginFits
  <1>6. ~(\/ GoUnlocked(p) \/ SeesStale(p) \/ Steal(p) \/ OpenTmp(p) \/ FillTmp(p) \/ RenameTmp(p)
          \/ ReadProfiles(p) \/ MirrorOfCli(p) \/ MirrorOfEngine(p) \/ Unlink(p) \/ ReadRegistry(p)
          \/ SaveRegistry(p) \/ FindGone(p) \/ PruneRegistry(p) \/ CopyRegistry(p))
    BY <1>1, Zenon DEF GoUnlocked, SeesStale, Steal, OpenTmp, FillTmp, RenameTmp, ReadProfiles, MirrorOfCli,
                MirrorOfEngine, Unlink, ReadRegistry, SaveRegistry, FindGone, PruneRegistry,
                CopyRegistry, At, Fits
  <1>7. ~(\/ Unlock(p) \/ BeginLogin(p) \/ PollLogin(p) \/ CommitLogin(p) \/ SignOut(p)
          \/ Refresh(p) \/ Exchange(p) \/ PutAccount(p))
    BY DEF Unlock, BeginLogin, PollLogin, CommitLogin, SignOut, Refresh, Exchange, PutAccount, Reading,
           At, Working
  <1>8. QED
    BY <1>2, <1>3, <1>4, <1>5, <1>6, <1>7 DEF Act, Step

\* Where a run has signed out, it stored a new generation or has done so before.
LEMMA SignOutEnds ==
    ASSUME Typed, NEW p \in Accounts, Act(p), LoginFits(p),
           proc'[p].op = "signout", proc'[p].pc = "unlock"
    PROVE  PutAccount(p) /\ proc[p].op = "signout" /\ proc[p].pc = "put"
  <1>1. /\ p \in Processes /\ proc \in [Processes -> RunType] /\ proc[p] \in RunType
        /\ Fits(p, proc[p]) /\ p \notin Clis /\ p \notin Engines /\ p \notin Desktops
    <2>1. p \in Processes
      BY SMTT(40) DEF Processes
    <2>2. QED
      BY <2>1, OwnRun, SharedProfilesAssumption DEF Writers
  <1>2. ~(StartCli(p) \/ StartEngine(p) \/ StartDesktop(p) \/ StartAccount(p))
    BY <1>1, RunOfStart, Zenon DEF StartCli, StartEngine, StartDesktop
  <1>3. ~(GiveUp(p) \/ AbandonLogin(p) \/ Die(p))
    BY <1>1 DEF GiveUp, AbandonLogin, Die, Ended, Blank
  <1>4. ~(TakeLock(p) \/ TakeFlock(p))
    BY <1>1 DEF TakeLock, TakeFlock, RunType
  <1>5. ~(WaitForUser(p) \/ Unlock(p))
    BY <1>1, SMTT(40) DEF WaitForUser, Unlock, Blank, RunType
  <1>6. ~(\/ GoUnlocked(p) \/ SeesStale(p) \/ Steal(p) \/ OpenTmp(p) \/ FillTmp(p) \/ RenameTmp(p)
          \/ ReadProfiles(p) \/ MirrorOfCli(p) \/ MirrorOfEngine(p) \/ Unlink(p) \/ ReadRegistry(p)
          \/ SaveRegistry(p) \/ FindGone(p) \/ PruneRegistry(p) \/ CopyRegistry(p))
    BY <1>1, Zenon DEF GoUnlocked, SeesStale, Steal, OpenTmp, FillTmp, RenameTmp, ReadProfiles, MirrorOfCli,
                MirrorOfEngine, Unlink, ReadRegistry, SaveRegistry, FindGone, PruneRegistry,
                CopyRegistry, At, Fits
  <1>7. ~(BeginLogin(p) \/ PollLogin(p) \/ CommitLogin(p) \/ SignOut(p))
    BY <1>1 DEF BeginLogin, PollLogin, CommitLogin, SignOut, Reading, Fail, Goto, Prepare, RunType
  <1>8. ~Refresh(p)
    BY <1>1 DEF Refresh, Reading, Fail, Goto, Prepare, RunType
  <1>9. ~Exchange(p)
    <2> SUFFICES ASSUME Exchange(p) PROVE FALSE
      OBVIOUS
    <2>1. proc[p].pc = "exchange" /\ proc[p].op = "refresh"
      BY DEF Exchange, At, LoginFits
    <2>2. proc'[p].op = proc[p].op
      BY <1>1 DEF Exchange, Goto, RunType
    <2>3. QED
      BY <2>1, <2>2
  <1>10. PutAccount(p)
    BY <1>2, <1>3, <1>4, <1>5, <1>6, <1>7, <1>8, <1>9 DEF Act, Step
  <1>11. proc'[p] = Left(p) /\ proc[p].pc = "put"
    BY <1>1, <1>10, RunOfPut
  <1>12. QED
    BY <1>1, <1>10, <1>11, RunIsLeft

\* Whoever has signed out has overtaken every sign-in,
LEMMA SignedOutStep ==
    ASSUME Typed, LockExcludes, InOrder, Generations, orderly', ~wiped',
           NEW p \in Processes, Act(p), NEW a \in Accounts
    PROVE  SignedOut(a)'
  <1> SUFFICES ASSUME proc'[a].op = "signout", proc'[a].pc = "unlock", NEW b \in Accounts, SignIn(b)'
               PROVE  proc'[b].generation < live'.credentials.generation
    BY DEF SignedOut
  <1>1. /\ orderly /\ ~wiped /\ a \in Processes /\ b \in Processes
        /\ PutAccount(p) \/ live'.credentials.generation = live.credentials.generation
    BY AccountMoves DEF Processes
  <1>2. LoginFits(a) /\ LoginFits(b) /\ SignedOut(a)
    BY <1>1 DEF Generations
  <1>3. ASSUME NEW q \in Accounts \ {p}
        PROVE  /\ proc'[q].op = proc[q].op /\ proc'[q].pc = proc[q].pc
               /\ proc'[q].generation = proc[q].generation
    BY OthersKept DEF Kept, Processes
  <1>4. CASE a = p
    <2>1. PutAccount(p) /\ proc[p].op = "signout" /\ proc[p].pc = "put"
      BY <1>2, <1>4, SignOutEnds
    <2>2. /\ live'.credentials.generation > live.credentials.generation
          /\ live'.credentials.generation \in Nat /\ live.credentials.generation \in Nat
      BY <1>2, <1>4, <2>1, PutMoves DEF LoginFits
    <2>3. b # p
      BY <1>4 DEF SignIn
    <2>4. SignIn(b) /\ proc'[b].generation = proc[b].generation
      BY <1>3, <2>3 DEF SignIn
    <2>5. proc[b].generation <= live.credentials.generation /\ proc[b].generation \in Nat
      <3>1. proc[b].generation \in 0..issued /\ issued \in Nat
        BY <1>1, OwnRun, RunTyped
      <3>2. QED
        BY <1>2, <2>4, <3>1 DEF LoginFits
    <2>6. QED
      BY <2>2, <2>4, <2>5
  <1>5. CASE a # p
    <2>1. proc[a].op = "signout" /\ proc[a].pc = "unlock" /\ Working(a)
      BY <1>3, <1>5 DEF Working
    <2>2. ~Working(p)
      BY <1>1, <1>5, <2>1, OnlyOneWorks
    <2>3. live'.credentials.generation = live.credentials.generation
      BY <1>1, <2>2 DEF PutAccount, At, Working
    <2>4. SignIn(b) /\ proc'[b].generation = proc[b].generation
      <3>1. CASE b = p
        BY <1>2, <2>2, <3>1, SignInBegins
      <3>2. CASE b # p
        BY <1>3, <3>2 DEF SignIn
      <3>3. QED
        BY <3>1, <3>2
    <2>5. QED
      BY <1>2, <2>1, <2>3, <2>4 DEF SignedOut
  <1>6. QED
    BY <1>4, <1>5

\* so that every step keeps the generations in order.
LEMMA GenerationsStep ==
    ASSUME Typed, LockExcludes, InOrder, Generations, NEW p \in Processes, Act(p)
    PROVE  Generations'
  <1> SUFFICES ASSUME orderly', ~wiped', NEW a \in Accounts PROVE LoginFits(a)' /\ SignedOut(a)'
    BY DEF Generations
  <1>1. LoginFits(a)'
    BY LoginOfOthers, LoginOfOwn
  <1>2. QED
    BY <1>1, SignedOutStep

--------------------------------------------------------------------------------
(* The theorems.                                                             *)

\* The invariant holds at the start,
LEMMA IInvInit == Init => IInv
  <1> SUFFICES ASSUME Init PROVE IInv
    OBVIOUS
  <1>1. Typed
    BY TypedInit
  <1>2. \A p \in Processes : proc[p] = Blank
    BY DEF Init
  <1>3. \A p \in Processes : /\ proc[p].pc = "ready" /\ proc[p].op = "none" /\ proc[p].holds = FALSE
                             /\ proc[p].late = FALSE
    BY <1>2 DEF Blank
  <1>4. LockExcludes
    BY <1>3 DEF LockExcludes, LockFits, Working
  <1>5. InOrder
    <2>1. PICK able \in {0, 1}, mirror \in {None, Old} :
             live = [profiles |-> IF able = 0 THEN NoProfiles
                                  ELSE Profiles("whole", [NoNames EXCEPT ![VmId] = Old], {}, VmId),
                     credentials |-> IF mirror = None THEN NoCreds
                                     ELSE Creds("whole", mirror, able, able)]
      BY DEF Init
    <2>2. /\ live.profiles.state # "torn"
          /\ live.credentials \in {NoCreds, Creds("whole", mirror, able, able)}
      BY <2>1 DEF NoProfiles, Profiles
    <2>3. FilesFit
      BY <2>2 DEF Init, FilesFit, NeverHalfWritten, NoCreds, Creds
    <2>4. QED
      BY <1>3, <2>3 DEF InOrder, WritesFit
  <1>6. Generations
    BY <1>3 DEF Generations, LoginFits, SignedOut, SignIn, Processes
  <1>7. QED
    BY <1>1, <1>4, <1>5, <1>6 DEF IInv

\* Nothing else is read by what the runs are about to write.
LEMMA InOrderStays ==
    ASSUME Typed, InOrder, UNCHANGED <<live, tmp, config, proc, orderly, replaced>>
    PROVE  InOrder'
  <1> SUFFICES ASSUME orderly' PROVE FilesFit' /\ \A p \in Processes : WritesFit(p)'
    BY DEF InOrder, Processes, Writers
  <1> SUFFICES ASSUME NEW p \in Processes PROVE FilesFit' /\ WritesFit(p)'
    <2>1. FilesFit'
      BY FilesStayFit DEF InOrder
    <2>2. QED
      BY <2>1
  <1>0. orderly
    OBVIOUS
  <1>1. FilesFit /\ WritesFit(p) /\ Fits(p, proc[p])
    BY <1>0, OwnRun DEF InOrder
  <1>2. proc[p].pc \in {"open", "fill", "rename"} => Updates(p)' = Updates(p)
    <2>1. proc[p].pc \in {"open", "fill", "rename"} => p \in Writers
      BY <1>1 DEF Fits, Processes
    <2>2. QED
      BY <2>1, UpdatesStay
  <1>3. Text(p)' = Text(p) /\ ActiveKey(live.profiles)' = ActiveKey(live.profiles)
    BY DEF Text, ActiveKey
  <1>4. WritesFit(p)'
    BY <1>1, <1>2, <1>3 DEF WritesFit
  <1>5. QED
    BY <1>1, <1>4, FilesStayFit

\* when a user removes the lock of a dead run,
LEMMA IInvRemoveLock == IInv /\ RemoveLock => IInv'
  <1> SUFFICES ASSUME IInv, RemoveLock PROVE IInv'
    OBVIOUS
  <1>1. Typed'
    BY TypedRemoveLock DEF IInv
  <1>2. UNCHANGED <<live, tmp, flock, config, issued, proc, orderly, wiped, replaced>> /\ Running = {}
    BY DEF RemoveLock, files, ghosts
  <1>3. LockExcludes'
    <2>1. \A p \in Processes : ~proc[p].holds /\ ~Working(p)
      BY <1>2 DEF IInv, LockExcludes, LockFits, Running, Working
    <2>2. QED
      BY <1>2, <2>1 DEF LockExcludes, LockFits, Working, Running, Processes, Writers
  <1>4. InOrder'
    BY <1>2, InOrderStays DEF IInv
  <1>5. Generations'
    BY <1>2 DEF IInv, Generations, LoginFits, SignedOut, SignIn
  <1>6. QED
    BY <1>1, <1>3, <1>4, <1>5 DEF IInv

\* and after every step.
LEMMA IInvStep == IInv /\ [Next]_vars => IInv'
  <1> SUFFICES ASSUME IInv, [Next]_vars PROVE IInv'
    OBVIOUS
  <1>1. ASSUME NEW p \in Processes, Act(p) PROVE IInv'
    BY <1>1, TypedAct, LockStep, InOrderStep, GenerationsStep DEF IInv
  <1>2. CASE RemoveLock
    BY <1>2, IInvRemoveLock
  <1>3. CASE UNCHANGED vars
    <2>1. UNCHANGED <<live, tmp, lock, flock, config, issued, proc, orderly, wiped, replaced>>
      BY <1>3 DEF vars, files, locks, ghosts
    <2>2. Typed'
      BY <2>1 DEF IInv, Typed, SharedTyped, RunsTyped, Running, Clusters, FilesType, RunType,
                  ProfilesType, CredsType, Keys, Processes, Writers, Fits, WellFormed, Stored
    <2>3. LockExcludes'
      BY <2>1 DEF IInv, LockExcludes, LockFits, Working, Running, Processes, Writers
    <2>4. InOrder'
      BY <2>1, InOrderStays DEF IInv
    <2>5. Generations'
      BY <2>1 DEF IInv, Generations, LoginFits, SignedOut, SignIn
    <2>6. QED
      BY <2>2, <2>3, <2>4, <2>5 DEF IInv
  <1>4. QED
    BY <1>1, <1>2, <1>3 DEF Next, Act

\* The inductive invariant: the lock excludes, the files are in order, and so is what the
\* runs are about to write and what a sign-in has noted.
THEOREM SharedProfilesInvariant == Spec => []IInv
  BY IInvInit, IInvStep, PTL DEF Spec

\* As long as every writer has held the lock, no reader finds half a profiles.json or
\* credentials.json, although all programs share one temporary file.
THEOREM ReadersFindWholeFiles == Spec => []NeverHalfWrittenInOrder
  <1>1. IInv => NeverHalfWrittenInOrder
    BY DEF IInv, InOrder, FilesFit, NeverHalfWrittenInOrder
  <1>2. QED
    BY <1>1, SharedProfilesInvariant, PTL

\* In the same order, a run of the CLI or of the engine that has finished its writes leaves the key of
\* the active profile in credentials.json.
THEOREM MirrorIsOfTheActive == Spec => []MirrorFollowsActive
  <1>1. IInv => MirrorFollowsActive
    BY DEF IInv, InOrder, WritesFit, MirrorFollowsActive, Processes, Writers
  <1>2. QED
    BY <1>1, SharedProfilesInvariant, PTL

\* The helper never sends a refresh token that was replaced or given up: it reads the file
\* anew under both locks, and keeps them while it exchanges the token.
THEOREM TokensAreSentOnce == Spec => []ReplacedTokenIsNotSent
  <1>1. IInv => ReplacedTokenIsNotSent
    BY DEF IInv, InOrder, FilesFit, WritesFit, ReplacedTokenIsNotSent, Processes
  <1>2. QED
    BY <1>1, SharedProfilesInvariant, PTL

\* A sign-in that a sign-out or another sign-in has overtaken does not store its account,
\* unless the engine has dropped the generation it compares.
THEOREM SignOutIsFinal == Spec => []SignOutCancelsUnlessWiped
  <1>1. IInv => SignOutCancelsUnlessWiped
    <2> SUFFICES ASSUME IInv, orderly, ~wiped, NEW a \in Accounts, proc[a].pc = "put",
                        proc[a].op = "commit", proc[a].late
                 PROVE  FALSE
      BY DEF SignOutCancelsUnlessWiped, SignOutCancels
    <2>1. LoginFits(a)
      BY DEF IInv, Generations
    <2>2. proc[a].generation = live.credentials.generation
      BY <2>1 DEF LoginFits
    <2>3. proc[a].generation < live.credentials.generation
      BY <2>1 DEF LoginFits, SignIn
    <2>4. live.credentials.generation \in Nat
      <3>1. Typed
        BY DEF IInv
      <3>2. live.credentials.generation \in 0..issued
        BY <3>1, FilesTyped DEF CredsType
      <3>3. QED
        BY <3>2
    <2>5. QED
      BY <2>2, <2>3, <2>4
  <1>2. QED
    BY <1>1, SharedProfilesInvariant, PTL

\* What profiles.json becomes is what it was, changed by the operation of the process that
\* renames: in order no update is lost, and none is made of an older file.
THEOREM NoUpdateIsLost == Spec => EveryWriteIsOneUpdate
  <1> DEFINE OneUpdate ==
         orderly' /\ live'.profiles # live.profiles =>
            \E p \in Writers : proc[p].pc = "rename" /\ live'.profiles \in Updates(p)
  <1>1. IInv /\ [Next]_vars => OneUpdate
    <2> SUFFICES ASSUME IInv, [Next]_vars, orderly', live'.profiles # live.profiles
                 PROVE  \E p \in Writers : proc[p].pc = "rename" /\ live'.profiles \in Updates(p)
      OBVIOUS
    <2>1. PICK p \in Processes : Act(p)
      <3>1. ~RemoveLock /\ ~UNCHANGED vars
        BY DEF RemoveLock, vars, files
      <3>2. QED
        BY <3>1 DEF Next, Act
    <2>2. Typed /\ orderly /\ WritesFit(p) /\ DOMAIN live = {"profiles", "credentials"}
      BY <2>1, OrderlyStays DEF IInv, InOrder, Typed, SharedTyped, FilesType
    <2>3. RenameTmp(p)
      <3>1. ~OpenTmp(p) /\ ~Unlink(p) /\ ~PutAccount(p)
        BY <2>2, Zenon DEF OpenTmp, Unlink, PutAccount
      <3>2. ~FillTmp(p)
        BY <2>2 DEF FillTmp, At, WritesFit
      <3>3. QED
        BY <2>1, <2>2, <3>1, <3>2, FilesChange
    <2>4. /\ proc[p].pc = "rename" /\ Text(p).state = "whole" /\ p \in Writers
          /\ tmp[proc[p].file] = Text(p)
      BY <2>2, <2>3, TextIsWhole DEF RenameTmp, At, WritesFit
    <2>5. live' = [live EXCEPT ![proc[p].file] = Text(p)]
      BY <2>3, <2>4, Zenon DEF RenameTmp
    <2>6. proc[p].file = "profiles" /\ live'.profiles = proc[p].new
      BY <2>2, <2>4, <2>5 DEF Text
    <2>7. QED
      BY <2>2, <2>4, <2>6 DEF WritesFit
  <1>2. OneUpdate =>
          (orderly' /\ live'.profiles # live.profiles =>
             \E p \in Writers :
                /\ proc[p].pc = "rename"
                /\ live'.profiles \in
                      CASE p \in Clis -> Edited(p, IF live.profiles.state = "whole"
                                                   THEN live.profiles ELSE Migrated)
                        [] p \in Engines -> Edited(p, BaseOfCopy)
                        [] proc[p].op = "prune" -> {Pruned(live.profiles, proc[p].gone)}
                        [] OTHER -> {Mirrored(BaseOfCopy)})
    BY Zenon DEF Updates
  <1> HIDE DEF OneUpdate
  <1>3. QED
    BY <1>1, <1>2, SharedProfilesInvariant, PTL DEF Spec, EveryWriteIsOneUpdate

\* The able account and its generation are changed by the helper alone, as long as the
\* engine has not dropped them: the CLI carries them through its writes.
THEOREM OnlyTheHelperMovesTheAccount == Spec => AccountSurvivesTheCli
  <1> DEFINE Carried ==
         orderly' /\ ~wiped' /\ (live'.credentials.able # live.credentials.able
                                   \/ live'.credentials.generation # live.credentials.generation)
           => \E a \in Accounts : proc[a].pc = "put" /\ proc'[a].pc = "unlock"
  <1>1. IInv /\ [Next]_vars => Carried
    <2> SUFFICES ASSUME IInv, [Next]_vars, orderly', ~wiped',
                        live'.credentials.able # live.credentials.able
                          \/ live'.credentials.generation # live.credentials.generation
                 PROVE  \E a \in Accounts : proc[a].pc = "put" /\ proc'[a].pc = "unlock"
      OBVIOUS
    <2>1. PICK p \in Processes : Act(p)
      <3>1. ~RemoveLock /\ ~UNCHANGED vars
        BY DEF RemoveLock, vars, files
      <3>2. QED
        BY <3>1 DEF Next, Act
    <2>2. PutAccount(p) /\ Typed
      BY <2>1, AccountMoves DEF IInv
    <2>3. p \in Accounts /\ proc[p].pc = "put" /\ proc'[p] = Left(p)
      BY <2>2, RunOfPut
    <2>4. proc'[p].pc = "unlock"
      BY <2>2, <2>3, OwnRun, RunIsLeft
    <2>5. QED
      BY <2>3, <2>4
  <1>2. QED
    BY <1>1, SharedProfilesInvariant, PTL DEF Spec, AccountSurvivesTheCli
================================================================================
