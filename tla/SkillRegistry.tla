----------------------------- MODULE SkillRegistry -----------------------------
(***************************************************************************)
(* The skills of the process (agents/skill_registry.py, skill_loader.py,   *)
(* skill_checks.py).  A skill file is a descriptor; the registry holds the *)
(* descriptors of every skill, the newest version first.                   *)
(***************************************************************************)
EXTENDS Naturals, Sequences, FiniteSets, SequencesExt

CONSTANTS
  SkillNames,  \* names of skills
  Buckets,     \* buckets a user's hash falls into (100)
  FileSets     \* BOUND: contents the skills/ directory may have at a start

Descriptors ==
  [name : SkillNames, version : Nat, rollout : 0 .. Buckets,
   needs : SUBSET STRING, tools : SUBSET {"rag", "weather"}, auto : BOOLEAN]

ASSUME SkillAssumption ==
  /\ Buckets \in Nat \ {0}
  /\ \A files \in FileSets : files \subseteq Descriptors /\ IsFiniteSet(files)

VARIABLE registry   \* skill name -> its descriptors, highest version first

\* The versions of a skill, the newest first; equal versions in any order.
NewestFirst(versions) ==
  {s \in SetToSeqs(versions) :
     \A i, j \in DOMAIN s : i < j => s[i].version >= s[j].version}

\* SkillLoader.load_all, put in place by SkillRegistry.init_from_loader.
Loaded(files) ==
  LET names == {d.name : d \in files}
      versions(n) == {d \in files : d.name = n}
  IN  {r \in [names -> UNION {NewestFirst(versions(n)) : n \in names}] :
         \A n \in names : r[n] \in NewestFirst(versions(n))}

Registries == UNION {Loaded(files) : files \in FileSets}

\* The rollout of one version, not added to those before it.
CoveredAlone(versions, i) == IF i = 0 THEN 0 ELSE versions[i].rollout

\* The rollouts of the first i versions, one interval of buckets each.
Covered(versions, i) ==
  LET sum[k \in 0 .. i] == IF k = 0 THEN 0 ELSE sum[k - 1] + versions[k].rollout
  IN  sum[i]

\* The bucket of a caller without an id.
NoBucket == Buckets

\* The version that serves a bucket: the first whose interval holds it, the
\* newest when none does or the caller has no id.
Resolve(versions, bucket) ==
  LET hits == {i \in DOMAIN versions : bucket < Covered(versions, i)}
  IN  IF Len(versions) = 1 \/ bucket = NoBucket \/ hits = {}
      THEN versions[1]
      ELSE versions[CHOOSE i \in hits : \A j \in hits : i <= j]

\* check_skill: every required slot is there and not null.
Check(d, h, null) == \A s \in d.needs : s \in DOMAIN h /\ h[s] # null

AutoEvaluated == {n \in DOMAIN registry : registry[n][1].auto}

RegistryTypeOK ==
  \A n \in DOMAIN registry :
    /\ registry[n] \in Seq(Descriptors)
    /\ registry[n] # <<>>
    /\ \A i, j \in DOMAIN registry[n] :
         i < j => registry[n][i].version >= registry[n][j].version

\* SkillRegistry.resolve (skill_registry.py:108-134): of two versions, the older
\* serves exactly as many buckets as its rollout says, up to what the newest
\* leaves over; every other bucket is served by the newest, the uncovered too.
RolloutIsShare ==
  \A n \in DOMAIN registry :
    Len(registry[n]) = 2 =>
      LET new == registry[n][1]
          old == registry[n][2]
          served(d) == {b \in 0 .. Buckets - 1 : Resolve(registry[n], b) = d}
          room == Buckets - new.rollout
      IN  /\ Cardinality(served(old)) = IF old.rollout <= room THEN old.rollout ELSE room
          /\ served(new) = (0 .. Buckets - 1) \ served(old)
================================================================================
