------------------------------ MODULE TurnProofs ------------------------------
(***************************************************************************)
(* What the turns of a conversation keep to, for any number of messages    *)
(* and workers, any slots, skill files, answers of the LLM and messages,   *)
(* whatever fails: no slot a turn does not name changes under it, the      *)
(* rules without the LLM and the examples stay harmless, the coupon waits  *)
(* for its round, and a rollout gets the share of users it asks for.       *)
(***************************************************************************)
EXTENDS ConversationTurn, FiniteSetTheorems, TLAPS

-----------------------------------------------------------------------------
(***************************************************************************)
(* The slots                                                               *)
(***************************************************************************)

Hashes == UNION {[d -> Values \cup {Null, Blank}] : d \in SUBSET Slots}

\* A non-empty set of positions has a last one.
LEMMA LastPosition ==
  ASSUME NEW n \in Nat, NEW S \in SUBSET (1 .. n), S # {}
  PROVE  \E k \in S : \A j \in S : j <= k
<1> DEFINE T == {n - k : k \in S}
<1>1. T \in SUBSET Nat /\ T # {}
  <2>1. \A k \in S : k \in 1 .. n
    OBVIOUS
  <2>2. \A k \in 1 .. n : n - k \in Nat
    OBVIOUS
  <2> QED
    BY <2>1, <2>2
<1>2. PICK m \in T : \A j \in T : m <= j
  <2> DEFINE R == OpToRel(<, Nat)
  <2>1. \E m \in T : \A j \in T : ~ (<<j, m>> \in R)
    BY <1>1, NatLessThanWellFounded, WFMin
  <2>2. \A j, m \in Nat : j < m => <<j, m>> \in R
    BY DEF OpToRel
  <2> HIDE DEF R, T
  <2>3. PICK m \in T : \A j \in T : ~ (<<j, m>> \in R)
    BY <2>1
  <2>4. ASSUME NEW j \in T PROVE m <= j
    <3>1. ~ (j < m) /\ j \in Nat /\ m \in Nat
      BY <1>1, <2>2, <2>3
    <3> QED
      BY <3>1
  <2> QED
    BY <2>4
<1>3. PICK k \in S : m = n - k
  BY <1>2
<1>4. ASSUME NEW j \in S PROVE j <= k
  <2>1. m <= n - j
    BY <1>2, <1>4
  <2> QED
    BY <2>1, <1>3
<1> QED
  BY <1>4

\* The operation that decides about a slot is one of those that name it.
LEMMA LastOnNames ==
  ASSUME NEW ops \in Seq(Ops), NEW s \in Named(ops)
  PROVE  LastOn(ops, s) \in Ops /\ LastOn(ops, s).slot = s
<1> DEFINE K == {k \in DOMAIN ops : ops[k].slot = s}
<1>1. K \in SUBSET (1 .. Len(ops)) /\ K # {} /\ Len(ops) \in Nat
  BY DEF Named
<1>2. \E k \in DOMAIN ops : ops[k].slot = s /\ \A j \in DOMAIN ops : ops[j].slot = s => j <= k
  <2>1. PICK k \in K : \A j \in K : j <= k
    BY <1>1, LastPosition
  <2> QED
    BY <2>1
<1> QED
  BY <1>2 DEF LastOn

\* Operations leave a hash a hash.
LEMMA RedisKeepsHash ==
  ASSUME NEW h \in Hashes, NEW ops \in Seq(Ops)
  PROVE  ApplyRedis(h, ops) \in Hashes
<1> DEFINE D == (DOMAIN h \ Named(ops)) \cup {s \in Named(ops) : LastOn(ops, s).op = "SET"}
           val(s) == IF s \in Named(ops) THEN Serialized(LastOn(ops, s).value) ELSE h[s]
<1>1. DOMAIN h \in SUBSET Slots /\ \A s \in DOMAIN h : h[s] \in Values \cup {Null, Blank}
  BY DEF Hashes
<1>2. \A s \in Named(ops) :
        s \in Slots /\ Serialized(LastOn(ops, s).value) \in Values \cup {Null, Blank}
  BY LastOnNames DEF Ops, Serialized
<1>3. D \in SUBSET Slots /\ \A s \in D : val(s) \in Values \cup {Null, Blank}
  BY <1>1, <1>2
<1>4. [s \in D |-> val(s)] \in [D -> Values \cup {Null, Blank}]
  BY <1>3
<1>5. ApplyRedis(h, ops) = [s \in D |-> val(s)]
  BY DEF ApplyRedis, Applied
<1> HIDE DEF D, val
<1> QED
  BY <1>3, <1>4, <1>5 DEF Hashes

\* A slot no operation names stays as it is.
LEMMA UnnamedSlotStays ==
  ASSUME NEW h, NEW ops, NEW s, s \notin Named(ops)
  PROVE  /\ s \in DOMAIN ApplyRedis(h, ops) <=> s \in DOMAIN h
         /\ s \in DOMAIN h => ApplyRedis(h, ops)[s] = h[s]
BY DEF ApplyRedis, Applied

\* Nothing set is a hash, too.
LEMMA UnsetIsHash == Unset \in Hashes
<1>1. Unset \in [{} -> Values \cup {Null, Blank}] /\ {} \in SUBSET Slots
  BY DEF Unset
<1> QED
  BY <1>1 DEF Hashes

-----------------------------------------------------------------------------
(***************************************************************************)
(* The planner                                                             *)
(***************************************************************************)

\* Plans a turn can get.
AllPlans ==
  {NoPlan} \cup {Coerced(p) : p \in LlmAnswers}
    \cup UNION {FallbackPlans[x][state] : x \in Texts, state \in FewshotStates}

\* Small talk: nothing a coupon or a search would follow from.
Harmless(plan) ==
  /\ plan.intent \in {"", "greeting", "chitchat"}
  /\ plan.tasks \subseteq {"GREETING", "WEATHER"}

\* What the rules answer is made up of a known intent, its tasks and the slots
\* that were found, or none.
LEMMA RulePlans ==
  ASSUME NEW x \in Texts, NEW state \in FewshotStates, NEW plan \in FallbackPlans[x][state]
  PROVE  /\ \E i \in KeywordIntents, ops \in {x.ops, <<>>} : plan = Plan(i, ops)
         /\ \/ Harmless(plan)
            \/ \E i \in KeywordIntents : Score(x, state, i) >= 100 * MedConf
<1> DEFINE scores == Scores(x, state)
           sure(i) == scores[i] >= 100 * MedConf
           city == \E k \in DOMAIN x.ops : x.ops[k].slot = "location"
           choice(i) == CASE sure(i) -> Plan(i, x.ops)
                          [] ~sure(i) /\ x.hello -> Plan("greeting", x.ops)
                          [] ~sure(i) /\ ~x.hello /\ city -> Plan("chitchat", x.ops)
                          [] OTHER -> Plan("greeting", <<>>)
<1>1. FallbackPlans[x][state] = {choice(i) : i \in Leaders(scores)}
  BY DEF FallbackPlans
<1>2. PICK i \in Leaders(scores) : plan = choice(i)
  BY <1>1
<1>3. i \in KeywordIntents
  BY <1>2 DEF Leaders
<1>4. scores[i] = Score(x, state, i)
  BY <1>3 DEF Scores
<1>5. \A ops : Harmless(Plan("greeting", ops)) /\ Harmless(Plan("chitchat", ops))
  BY DEF Harmless, Plan, SubTasks
<1>6. "greeting" \in KeywordIntents /\ "chitchat" \in KeywordIntents
  BY DEF KeywordIntents, Intents
<1> HIDE DEF city, scores
<1>7. CASE sure(i)
  BY <1>2, <1>3, <1>4, <1>7
<1>8. CASE ~sure(i) /\ x.hello
  BY <1>2, <1>5, <1>6, <1>8
<1>9. CASE ~sure(i) /\ ~x.hello /\ city
  BY <1>2, <1>5, <1>6, <1>9
<1>10. CASE ~sure(i) /\ ~x.hello /\ ~city
  BY <1>2, <1>5, <1>6, <1>10
<1> QED
  BY <1>7, <1>8, <1>9, <1>10

\* Without the examples no score is high enough.
LEMMA KeywordsAreNotEnough ==
  ASSUME NEW x \in Texts, NEW i \in KeywordIntents
  PROVE  Score(x, "off", i) <= 4000
<1>1. x.hits[i] \in Nat
  BY PlannerAssumption
<1>2. KeywordScore(x, i) \in 0 .. 100
  BY <1>1 DEF KeywordScore
<1>3. Similarity(x, "off", i) = 0
  BY DEF Similarity
<1> QED
  BY <1>2, <1>3 DEF Score, SimWeight, KwWeight

\* So that the rules alone answer with small talk.
LEMMA BlindPlansAreHarmless ==
  ASSUME NEW x \in Texts, NEW plan \in FallbackPlans[x]["off"]
  PROVE  Harmless(plan)
<1>1. \A i \in KeywordIntents : Score(x, "off", i) \in Int /\ Score(x, "off", i) <= 4000
  <2> SUFFICES ASSUME NEW i \in KeywordIntents PROVE Score(x, "off", i) \in Int
    BY KeywordsAreNotEnough
  <2>1. x.hits[i] \in Nat
    BY PlannerAssumption
  <2> QED
    BY <2>1 DEF Score, KeywordScore, Similarity, SimWeight, KwWeight
<1>2. \A i \in KeywordIntents : ~ (Score(x, "off", i) >= 100 * MedConf)
  BY <1>1 DEF MedConf
<1>3. "off" \in FewshotStates
  BY DEF FewshotStates
<1> QED
  BY <1>2, <1>3, RulePlans

\* Every plan has a known intent and emotion, and operations on known slots.
LEMMA PlanFacts ==
  ASSUME NEW plan \in AllPlans
  PROVE  /\ plan.ops \in Seq(Ops)
         /\ plan # NoPlan => plan.intent \in KeywordIntents /\ plan.emotion \in Emotions
<1>0. <<>> \in Seq(Ops)
  OBVIOUS
<1>1. CASE plan = NoPlan
  BY <1>0, <1>1 DEF NoPlan
<1>2. ASSUME NEW p \in LlmAnswers, plan = Coerced(p)
      PROVE  plan.ops \in Seq(Ops) /\ plan.intent \in KeywordIntents /\ plan.emotion \in Emotions
  <2>1. {"intent", "tasks", "ops", "emotion"} = DOMAIN p /\ p.ops \in Seq(Ops)
    BY TurnAssumption
  <2>2. plan.ops = p.ops
    BY <1>2, <2>1 DEF Coerced
  <2>3. plan.intent \in Intents /\ plan.emotion \in Emotions
    BY <1>2, <2>1 DEF Coerced, Intents, Emotions
  <2> QED
    BY <2>1, <2>2, <2>3 DEF KeywordIntents
<1>3. ASSUME NEW x \in Texts, NEW state \in FewshotStates, plan \in FallbackPlans[x][state]
      PROVE  plan.ops \in Seq(Ops) /\ plan.intent \in KeywordIntents /\ plan.emotion \in Emotions
  <2>1. PICK i \in KeywordIntents, ops \in {x.ops, <<>>} : plan = Plan(i, ops)
    BY <1>3, RulePlans
  <2>2. ops \in Seq(Ops)
    BY <1>0, TurnAssumption
  <2> QED
    BY <2>1, <2>2 DEF Plan, Emotions
<1> QED
  BY <1>1, <1>2, <1>3 DEF AllPlans

-----------------------------------------------------------------------------
(***************************************************************************)
(* The skills                                                              *)
(***************************************************************************)

\* What a registry holds for a skill: descriptors, each once, the newest first.
LEMMA RegistryEntries ==
  ASSUME NEW r \in Registries, NEW n \in DOMAIN r
  PROVE  /\ n \in SkillNames
         /\ r[n] \in Seq(Descriptors)
         /\ r[n] # <<>>
         /\ \A i, j \in DOMAIN r[n] : i < j => r[n][i].version >= r[n][j].version
         /\ \A i, j \in DOMAIN r[n] : i # j => r[n][i] # r[n][j]
<1>1. PICK files \in FileSets : r \in Loaded(files)
  BY DEF Registries
<1>2. files \subseteq Descriptors /\ IsFiniteSet(files)
  BY SkillAssumption
<1> DEFINE names == {d.name : d \in files}
           own == {d \in files : d.name = n}
           k == Cardinality(own)
<1>3. n \in names /\ r[n] \in NewestFirst(own)
  BY <1>1 DEF Loaded
<1>4. n \in SkillNames /\ own # {}
  BY <1>2, <1>3 DEF Descriptors
<1>5. own \subseteq Descriptors /\ IsFiniteSet(own)
  BY <1>2, FS_Subset
<1>6. k \in Nat /\ k # 0
  BY <1>4, <1>5, FS_CardinalityType, FS_EmptySet
<1>7. /\ r[n] \in [1 .. k -> own]
      /\ \A i, j \in 1 .. k : i # j => r[n][i] # r[n][j]
      /\ \A i, j \in DOMAIN r[n] : i < j => r[n][i].version >= r[n][j].version
  BY <1>3 DEF NewestFirst, SetToSeqs
<1> HIDE DEF k, own, names
<1>8. r[n] \in [1 .. k -> Descriptors] /\ DOMAIN r[n] = 1 .. k
  BY <1>5, <1>7
<1>9. r[n] \in Seq(Descriptors) /\ Len(r[n]) = k
  BY <1>6, <1>8
<1>10. r[n] # <<>>
  BY <1>6, <1>9
<1> QED
  BY <1>4, <1>7, <1>8, <1>9, <1>10

\* The rollouts of two versions, one after the other.
LEMMA CoveredTwo ==
  ASSUME NEW v, v[1].rollout \in Nat, v[2].rollout \in Nat
  PROVE  /\ Covered(v, 1) = v[1].rollout
         /\ Covered(v, 2) = v[1].rollout + v[2].rollout
<1> DEFINE Sums(f, i) == [k \in 0 .. i |-> IF k = 0 THEN 0 ELSE f[k - 1] + v[k].rollout]
           Sum(i) == CHOOSE f : f = Sums(f, i)
<1>1. \A i : Covered(v, i) = Sum(i)[i]
  BY DEF Covered
<1>2. Sum(1) = Sums(Sum(1), 1)
  <2> DEFINE g == [k \in 0 .. 1 |-> IF k = 0 THEN 0 ELSE v[1].rollout]
  <2>1. g = Sums(g, 1)
    OBVIOUS
  <2> HIDE DEF g, Sums
  <2> QED
    BY <2>1
<1>3. Sum(2) = Sums(Sum(2), 2)
  <2> DEFINE g == [k \in 0 .. 2 |-> IF k = 0 THEN 0 ELSE IF k = 1 THEN v[1].rollout
                                     ELSE v[1].rollout + v[2].rollout]
  <2>1. g = Sums(g, 2)
    OBVIOUS
  <2> HIDE DEF g, Sums
  <2> QED
    BY <2>1
<1> HIDE DEF Sum
<1>4. Sum(1)[0] = 0 /\ Sum(1)[1] = Sum(1)[0] + v[1].rollout
  BY <1>2
<1>5. /\ Sum(2)[0] = 0 /\ Sum(2)[1] = Sum(2)[0] + v[1].rollout
      /\ Sum(2)[2] = Sum(2)[1] + v[2].rollout
  BY <1>3
<1> QED
  BY <1>1, <1>4, <1>5

\* A bucket goes to the older of two versions if it is past the share of the
\* newest and within that of the older.
LEMMA ResolveTwo ==
  ASSUME NEW v \in Seq(Descriptors), Len(v) = 2, NEW b \in Nat, b # NoBucket
  PROVE  Resolve(v, b) =
           IF v[1].rollout <= b /\ b < v[1].rollout + v[2].rollout THEN v[2] ELSE v[1]
<1> DEFINE hits == {i \in DOMAIN v : b < Covered(v, i)}
           first == CHOOSE i \in hits : \A j \in hits : i <= j
<1>0. DOMAIN v = {1, 2}
  <2>1. DOMAIN v = 1 .. 2
    OBVIOUS
  <2>2. 1 .. 2 = {1, 2}
    OBVIOUS
  <2> QED
    BY <2>1, <2>2
<1>1. v[1].rollout \in Nat /\ v[2].rollout \in Nat
  <2>1. v[1] \in Descriptors /\ v[2] \in Descriptors
    BY <1>0
  <2>2. v[1].rollout \in 0 .. Buckets /\ v[2].rollout \in 0 .. Buckets
    BY <2>1 DEF Descriptors
  <2> QED
    BY <2>2, SkillAssumption
<1>2. Covered(v, 1) = v[1].rollout /\ Covered(v, 2) = v[1].rollout + v[2].rollout
  BY <1>1, CoveredTwo
<1>3. /\ 1 \in hits <=> b < Covered(v, 1)
      /\ 2 \in hits <=> b < Covered(v, 2)
      /\ hits \subseteq {1, 2}
  BY <1>0
<1> HIDE DEF hits
<1>4. /\ 1 \in hits <=> b < v[1].rollout
      /\ 2 \in hits <=> b < v[1].rollout + v[2].rollout
      /\ hits \subseteq {1, 2}
  BY <1>2, <1>3
<1>5. Resolve(v, b) = IF hits = {} THEN v[1] ELSE v[first]
  <2>1. Len(v) # 1 /\ b # NoBucket
    OBVIOUS
  <2> QED
    BY <2>1 DEF Resolve, hits
<1>6. CASE b < v[1].rollout
  <2>0. 1 \in hits /\ 2 \in hits
    BY <1>1, <1>4, <1>6
  <2>1. hits = {1, 2}
    BY <1>4, <2>0
  <2>2. 1 \in hits /\ \A j \in hits : 1 <= j
    BY <2>1
  <2>3. \A i \in hits : i <= 1 => i = 1
    BY <2>1
  <2>4. first \in hits /\ \A j \in hits : first <= j
    BY <2>2
  <2>5. first = 1
    BY <2>2, <2>3, <2>4
  <2>6. Resolve(v, b) = v[first]
    BY <1>5, <2>2
  <2> HIDE DEF first
  <2> QED
    BY <1>1, <1>6, <2>5, <2>6
<1>7. CASE v[1].rollout <= b /\ b < v[1].rollout + v[2].rollout
  <2>0. 1 \notin hits /\ 2 \in hits
    BY <1>1, <1>4, <1>7
  <2>1. hits = {2}
    BY <1>4, <2>0
  <2>2. first = 2
    BY <2>1
  <2> QED
    BY <1>5, <1>7, <2>1, <2>2
<1>8. CASE ~ (b < v[1].rollout) /\ ~ (b < v[1].rollout + v[2].rollout)
  <2>1. hits = {}
    BY <1>4, <1>8
  <2> QED
    BY <1>5, <1>8, <2>1
<1> QED
  BY <1>1, <1>6, <1>7, <1>8

\* The entries make up the type of the registry.
LEMMA RegistriesAreTyped == registry \in Registries => RegistryTypeOK
BY RegistryEntries DEF RegistryTypeOK

\* Of two versions the older gets its share of the buckets.
LEMMA SharesOfTwo == registry \in Registries => RolloutIsShare
<1> SUFFICES ASSUME registry \in Registries, NEW n \in DOMAIN registry,
                    Len(registry[n]) = 2
             PROVE  LET new == registry[n][1]
                        old == registry[n][2]
                        served(d) == {b \in 0 .. Buckets - 1 : Resolve(registry[n], b) = d}
                        room == Buckets - new.rollout
                    IN  /\ Cardinality(served(old)) = IF old.rollout <= room THEN old.rollout ELSE room
                        /\ served(new) = (0 .. Buckets - 1) \ served(old)
  BY DEF RolloutIsShare
<1> DEFINE v == registry[n]
           new == v[1]
           old == v[2]
           served(d) == {b \in 0 .. Buckets - 1 : Resolve(v, b) = d}
           room == Buckets - new.rollout
           share == IF old.rollout <= room THEN old.rollout ELSE room
<1>1. v \in Seq(Descriptors) /\ Len(v) = 2 /\ new # old
  BY RegistryEntries
<1> HIDE DEF v
<1>2. /\ new.rollout \in 0 .. Buckets /\ old.rollout \in 0 .. Buckets
      /\ Buckets \in Nat /\ room \in Nat /\ share \in Nat
  <2>1. new \in Descriptors /\ old \in Descriptors
    <3>1. 1 \in 1 .. Len(v) /\ 2 \in 1 .. Len(v)
      BY <1>1
    <3>2. \A i \in 1 .. Len(v) : v[i] \in Descriptors
      BY <1>1
    <3> QED
      BY <3>1, <3>2
  <2>2. Buckets \in Nat
    BY SkillAssumption
  <2>3. new.rollout \in 0 .. Buckets /\ old.rollout \in 0 .. Buckets
    BY <2>1 DEF Descriptors
  <2> HIDE DEF new, old
  <2> QED
    BY <2>2, <2>3
<1>3. \A b \in 0 .. Buckets - 1 :
        Resolve(v, b) =
          IF new.rollout <= b /\ b < new.rollout + old.rollout THEN old ELSE new
  <2>1. \A b \in 0 .. Buckets - 1 : b \in Nat /\ b # NoBucket
    BY <1>2 DEF NoBucket
  <2> QED
    BY <1>1, <2>1, ResolveTwo
<1>4. served(new) = (0 .. Buckets - 1) \ served(old)
  BY <1>1, <1>3
<1>5. served(old) = new.rollout .. (new.rollout + share - 1)
  <2>1. \A b : b \in served(old) <=>
          b \in 0 .. Buckets - 1 /\ new.rollout <= b /\ b < new.rollout + old.rollout
    BY <1>1, <1>3
  <2>2. \A b : b \in served(old) <=> b \in new.rollout .. (new.rollout + share - 1)
    BY <1>2, <2>1
  <2> QED
    BY <2>2
<1>6. Cardinality(new.rollout .. (new.rollout + share - 1)) = share
  <2> DEFINE a == new.rollout
             z == new.rollout + share - 1
  <2>1. a \in Int /\ z \in Int
    BY <1>2
  <2>2. Cardinality(a .. z) = IF a > z THEN 0 ELSE z - a + 1
    BY <2>1, FS_Interval
  <2> QED
    BY <1>2, <2>2
<1> QED
  BY <1>4, <1>5, <1>6 DEF v

-----------------------------------------------------------------------------
(***************************************************************************)
(* The invariant                                                           *)
(***************************************************************************)

Places == Thinking \cup {"idle", "queued", "tools", "reply", "done", "failed"}

TurnRecords ==
  [pc : Places, seen : Hashes, round : 0 .. HistoryMax + 1, before : Nat,
   plan : AllPlans, completed : SUBSET SkillNames, pending : SUBSET SkillNames,
   blind : BOOLEAN, coupon : BOOLEAN]

\* What the proofs need of the types.
Shape ==
  /\ slots \in Hashes
  /\ backend \in {"redis", "memory"}
  /\ registry \in Registries
  /\ fewshot \in FewshotStates
  /\ messages \in 0 .. HistoryMax
  /\ notices \in 0 .. MaxNotices
  /\ answered \in Nat
  /\ turn \in [Turns -> TurnRecords]

\* What holds of each turn, n being the notices there have been: its round is no
\* more than the answers remembered when it came in, unless notices were
\* counted among them; only a done turn shows a coupon; a blind one is small talk.
TurnOK(r, n) ==
  /\ r.completed \cap r.pending = {}
  /\ n = 0 => r.round <= r.before + 1
  /\ r.coupon => r.pc = "done" /\ (n = 0 => r.before >= MinRounds)
  /\ r.blind => Harmless(r.plan) /\ ~ r.coupon

\* auto being the skills that are always attempted: a blind turn attempts no
\* others but those of small talk, and one that is over attempts none.
Small(r, auto) ==
  /\ r.pc \in {"idle", "done", "failed"} => r.completed = {} /\ r.pending = {}
  /\ r.blind => r.completed \cup r.pending \subseteq {"GREETING", "WEATHER"} \cup auto

Done == {t \in Turns : turn[t].pc = "done"}

\* Every answer that is remembered is an earlier one or that of a done turn.
AnswersCounted == answered <= Earlier + Cardinality(Done)

\* Two messages a turn, and the notices.
MessagesCounted == notices = 0 => messages <= 2 * answered

TurnInv ==
  /\ Shape
  /\ AnswersCounted
  /\ MessagesCounted
  /\ \A t \in Turns : TurnOK(turn[t], notices)
  /\ \A t \in Turns : Small(turn[t], AutoEvaluated)

\* Sets of turns can be counted.
LEMMA TurnsFinite ==
  /\ IsFiniteSet(Turns)
  /\ Cardinality(Turns) = MaxTurns
  /\ \A S \in SUBSET Turns :
       IsFiniteSet(S) /\ Cardinality(S) \in Nat /\ Cardinality(S) <= MaxTurns
<1>1. MaxTurns \in Nat /\ 1 \in Int /\ MaxTurns \in Int
  BY TurnAssumption
<1>2. IsFiniteSet(Turns) /\ Cardinality(Turns) = MaxTurns
  BY <1>1, FS_Interval DEF Turns
<1>3. ASSUME NEW S \in SUBSET Turns
      PROVE  IsFiniteSet(S) /\ Cardinality(S) \in Nat /\ Cardinality(S) <= MaxTurns
  BY <1>2, FS_Subset, FS_CardinalityType
<1> QED
  BY <1>2, <1>3

\* A turn that has not begun or has failed claims nothing.
LEMMA IdleFacts ==
  /\ Idle \in TurnRecords
  /\ [Idle EXCEPT !.pc = "failed"] \in TurnRecords
  /\ \A n : TurnOK(Idle, n) /\ TurnOK([Idle EXCEPT !.pc = "failed"], n)
  /\ \A auto : Small(Idle, auto) /\ Small([Idle EXCEPT !.pc = "failed"], auto)
<1>1. /\ Unset \in Hashes /\ NoPlan \in AllPlans /\ HistoryMax \in Nat
      /\ "idle" \in Places /\ "failed" \in Places /\ 0 \in 0 .. HistoryMax + 1
  BY UnsetIsHash, TurnAssumption DEF AllPlans, Places
<1>2. Idle \in TurnRecords /\ [Idle EXCEPT !.pc = "failed"] \in TurnRecords
  BY <1>1 DEF Idle, TurnRecords
<1>3. \A n : TurnOK(Idle, n) /\ TurnOK([Idle EXCEPT !.pc = "failed"], n)
  BY DEF TurnOK, Idle
<1>4. \A auto : Small(Idle, auto) /\ Small([Idle EXCEPT !.pc = "failed"], auto)
  BY DEF Small, Idle
<1> QED
  BY <1>2, <1>3, <1>4

\* The first state: the earlier answers have two messages each, cut to the limit.
LEMMA InitTurns == Init => TurnInv
<1> SUFFICES ASSUME Init PROVE TurnInv
  OBVIOUS
<1>1. /\ HistoryMax \in Nat /\ Earlier \in Nat /\ MaxNotices \in Nat
      /\ answered \in 0 .. Earlier
  BY TurnAssumption DEF Init
<1>2. messages \in 0 .. HistoryMax /\ messages <= 2 * answered
  BY <1>1 DEF Init, Capped
<1>3. turn \in [Turns -> TurnRecords] /\ \A t \in Turns : turn[t] = Idle
  BY IdleFacts DEF Init
<1>4. Shape
  BY <1>1, <1>2, <1>3, UnsetIsHash DEF Init, Shape, FewshotStates
<1>5. Cardinality(Done) \in Nat
  BY TurnsFinite DEF Done
<1>6. AnswersCounted /\ MessagesCounted
  BY <1>1, <1>2, <1>5 DEF AnswersCounted, MessagesCounted
<1> QED
  BY <1>3, <1>4, <1>6, IdleFacts DEF TurnInv

-----------------------------------------------------------------------------
(***************************************************************************)
(* The steps of a turn                                                     *)
(***************************************************************************)

\* One turn moves on, and nothing is recorded.
LEMMA OneTurnMoves ==
  ASSUME TurnInv, NEW t \in Turns, NEW r \in TurnRecords,
         TurnOK(r, notices), Small(r, AutoEvaluated),
         turn' = [turn EXCEPT ![t] = r],
         turn[t].pc # "done",
         slots' \in Hashes, UNCHANGED backend, UNCHANGED registry,
         fewshot' \in FewshotStates,
         UNCHANGED <<messages, notices, answered>>
  PROVE  TurnInv'
<1>1. turn' \in [Turns -> TurnRecords]
      /\ \A u \in Turns : turn'[u] = IF u = t THEN r ELSE turn[u]
  BY DEF TurnInv, Shape
<1>2. Shape'
  BY <1>1 DEF TurnInv, Shape
<1>3. Done \subseteq Done' /\ Done' \subseteq Turns
  BY <1>1 DEF Done
<1>4. Cardinality(Done) <= Cardinality(Done') /\ Cardinality(Done) \in Nat /\ Cardinality(Done') \in Nat
  BY <1>3, TurnsFinite, FS_Subset DEF Done
<1>5. AnswersCounted'
  BY <1>4, TurnAssumption DEF TurnInv, Shape, AnswersCounted
<1>6. MessagesCounted'
  BY DEF TurnInv, MessagesCounted
<1>7. \A u \in Turns : TurnOK(turn'[u], notices')
  BY <1>1 DEF TurnInv
<1>8. \A u \in Turns : Small(turn'[u], AutoEvaluated')
  BY <1>1 DEF TurnInv, AutoEvaluated
<1> QED
  BY <1>2, <1>5, <1>6, <1>7, <1>8 DEF TurnInv

\* A message that comes in counts its round from the messages there are.
LEMMA ArriveKeeps ==
  ASSUME TurnInv, NEW t \in Turns, Arrive(t)
  PROVE  TurnInv'
<1> DEFINE r == [turn[t] EXCEPT !.pc = "queued", !.round = (messages \div 2) + 1,
                               !.before = answered]
<1>1. turn[t] \in TurnRecords /\ turn \in [Turns -> TurnRecords]
  BY DEF TurnInv, Shape
<1>2. /\ messages \in Nat /\ messages <= HistoryMax /\ HistoryMax \in Nat
      /\ answered \in Nat
  BY TurnAssumption DEF TurnInv, Shape
<1>3. /\ (messages \div 2) + 1 \in 0 .. HistoryMax + 1
      /\ messages <= 2 * answered => (messages \div 2) + 1 <= answered + 1
  BY <1>2
<1>4. r \in TurnRecords
  BY <1>1, <1>2, <1>3 DEF TurnRecords, Places
<1>5. TurnOK(turn[t], notices) /\ Small(turn[t], AutoEvaluated)
  BY DEF TurnInv
<1>6. TurnOK(r, notices) /\ Small(r, AutoEvaluated)
  <2>1. /\ r.round = (messages \div 2) + 1 /\ r.before = answered /\ r.pc = "queued"
        /\ r.completed = turn[t].completed /\ r.pending = turn[t].pending
        /\ r.coupon = turn[t].coupon /\ r.blind = turn[t].blind /\ r.plan = turn[t].plan
    BY <1>1 DEF TurnRecords
  <2>2. ~ turn[t].coupon
    BY <1>5 DEF Arrive, TurnOK
  <2>3. notices = 0 => r.round <= r.before + 1
    BY <1>3, <2>1 DEF TurnInv, MessagesCounted
  <2> HIDE DEF r
  <2> QED
    BY <1>5, <2>1, <2>2, <2>3 DEF TurnOK, Small
<1>7. turn' = [turn EXCEPT ![t] = r]
  BY <1>1 DEF Arrive
<1>8. /\ turn[t].pc # "done" /\ slots' \in Hashes /\ UNCHANGED backend
      /\ UNCHANGED registry /\ fewshot' \in FewshotStates
      /\ UNCHANGED <<messages, notices, answered>>
  BY DEF Arrive, TurnInv, Shape, slotVars
<1> HIDE DEF r
<1> QED
  BY <1>4, <1>6, <1>7, <1>8, OneTurnMoves

\* A turn that fails.
LEMMA FailKeeps ==
  ASSUME TurnInv, NEW t \in Turns, Fail(t), turn[t].pc # "done",
         UNCHANGED slotVars, UNCHANGED registry, fewshot' \in FewshotStates,
         UNCHANGED <<messages, notices, answered>>
  PROVE  TurnInv'
<1>1. slots' \in Hashes /\ UNCHANGED backend
  BY DEF TurnInv, Shape, slotVars
<1> QED
  BY <1>1, IdleFacts, OneTurnMoves DEF Fail

\* A turn that only goes to another place, with the slots it has read.
LEMMA GoKeeps ==
  ASSUME TurnInv, NEW t \in Turns, NEW place \in Places, NEW h \in Hashes,
         turn' = [turn EXCEPT ![t] = [turn[t] EXCEPT !.pc = place, !.seen = h]],
         turn[t].pc # "done", place \notin {"idle", "done", "failed"},
         UNCHANGED slotVars, UNCHANGED registry, fewshot' \in FewshotStates,
         UNCHANGED <<messages, notices, answered>>
  PROVE  TurnInv'
<1> DEFINE r == [turn[t] EXCEPT !.pc = place, !.seen = h]
<1>1. turn[t] \in TurnRecords /\ TurnOK(turn[t], notices) /\ Small(turn[t], AutoEvaluated)
  BY DEF TurnInv, Shape
<1>2. r \in TurnRecords
  BY <1>1 DEF TurnRecords
<1>3. TurnOK(r, notices) /\ Small(r, AutoEvaluated)
  BY <1>1 DEF TurnRecords, TurnOK, Small
<1>4. slots' \in Hashes /\ UNCHANGED backend
  BY DEF TurnInv, Shape, slotVars
<1> HIDE DEF r
<1> QED
  BY <1>2, <1>3, <1>4, OneTurnMoves DEF r

\* A worker begins with what it reads of the slots.
LEMMA BeginKeeps ==
  ASSUME TurnInv, NEW t \in Turns, Begin(t)
  PROVE  TurnInv'
<1>1. /\ turn[t].pc # "done" /\ UNCHANGED slotVars /\ UNCHANGED registry
      /\ fewshot' \in FewshotStates /\ UNCHANGED <<messages, notices, answered>>
  BY DEF Begin, TurnInv, Shape
<1>2. CASE turn' = [turn EXCEPT ![t].pc = "call", ![t].seen = AllSlots]
  <2>1. AllSlots \in Hashes /\ "call" \in Places
    BY UnsetIsHash DEF AllSlots, TurnInv, Shape, Places, Thinking
  <2>2. turn' = [turn EXCEPT ![t] = [turn[t] EXCEPT !.pc = "call", !.seen = AllSlots]]
    BY <1>2 DEF TurnInv, Shape
  <2> QED
    BY <1>1, <2>1, <2>2, GoKeeps
<1>3. CASE Fail(t)
  BY <1>1, <1>3, FailKeeps
<1> QED
  BY <1>2, <1>3 DEF Begin

\* A place among the turn's calls of the LLM, or on to the reply.
LEMMA PlaceKeeps ==
  ASSUME TurnInv, NEW t \in Turns, NEW place \in Places,
         turn' = [turn EXCEPT ![t].pc = place],
         turn[t].pc # "done", place \notin {"idle", "done", "failed"},
         UNCHANGED slotVars, UNCHANGED registry, fewshot' \in FewshotStates,
         UNCHANGED <<messages, notices, answered>>
  PROVE  TurnInv'
<1>1. turn[t] \in TurnRecords /\ turn \in [Turns -> TurnRecords]
  BY DEF TurnInv, Shape
<1>2. turn[t].seen \in Hashes
  BY <1>1 DEF TurnRecords
<1>3. [turn[t] EXCEPT !.pc = place, !.seen = turn[t].seen] = [turn[t] EXCEPT !.pc = place]
  BY <1>1 DEF TurnRecords
<1>4. PICK h \in Hashes : h = turn[t].seen
  BY <1>2
<1>5. turn' = [turn EXCEPT ![t] = [turn[t] EXCEPT !.pc = place, !.seen = h]]
  BY <1>1, <1>3, <1>4
<1> QED
  BY <1>5, GoKeeps

\* What the planner's answer leads to.
LEMMA OrchestrateMoves ==
  ASSUME TurnInv, NEW t \in Turns, turn[t].pc \in Thinking,
         NEW plan \in AllPlans, NEW blind \in BOOLEAN, blind => Harmless(plan),
         Orchestrate(t, plan, blind)
  PROVE  /\ \E r \in TurnRecords :
              /\ TurnOK(r, notices) /\ Small(r, AutoEvaluated)
              /\ r.plan = plan /\ r.pc \in {"tools", "reply"}
              /\ turn' = [turn EXCEPT ![t] = r]
         /\ slots' = IF backend = "redis" THEN ApplyRedis(slots, plan.ops) ELSE slots
         /\ slots' \in Hashes /\ UNCHANGED backend
<1> DEFINE after == SlotsAfter(t, plan.ops)
           tasks == (plan.tasks \cup AutoEvaluated) \cap DOMAIN registry
           skill(n) == Resolve(registry[n], Bucket)
           completed == {n \in tasks : Check(skill(n), after, Null)}
           pending == tasks \ completed
           place == IF \E n \in completed : skill(n).tools # {} THEN "tools" ELSE "reply"
           r == [turn[t] EXCEPT !.pc = place, !.seen = Unset, !.plan = plan,
                                !.completed = completed, !.pending = pending, !.blind = blind]
<1>1. turn[t] \in TurnRecords /\ turn \in [Turns -> TurnRecords] /\ TurnOK(turn[t], notices)
  BY DEF TurnInv, Shape
<1>2. turn' = [turn EXCEPT ![t] = r] /\ UNCHANGED backend
  BY DEF Orchestrate
<1>3. slots' = IF backend = "redis" THEN ApplyRedis(slots, plan.ops) ELSE slots
  BY DEF Orchestrate, SlotsAfter
<1>4. slots' \in Hashes
  BY <1>3, PlanFacts, RedisKeepsHash DEF TurnInv, Shape
<1>5. tasks \subseteq SkillNames
  BY RegistryEntries DEF TurnInv, Shape
<1>6. /\ completed \in SUBSET SkillNames /\ pending \in SUBSET SkillNames
      /\ completed \cap pending = {}
      /\ completed \cup pending \subseteq plan.tasks \cup AutoEvaluated
  BY <1>5
<1>7. place \in {"tools", "reply"}
  OBVIOUS
<1> HIDE DEF completed, pending, place
<1>8. r \in TurnRecords
  BY <1>1, <1>6, <1>7, UnsetIsHash DEF TurnRecords, Places
<1>9. /\ r.plan = plan /\ r.pc = place /\ r.completed = completed /\ r.pending = pending
      /\ r.blind = blind /\ r.round = turn[t].round /\ r.before = turn[t].before
      /\ r.coupon = turn[t].coupon
  BY <1>1 DEF TurnRecords
<1>10. ~ turn[t].coupon
  BY <1>1 DEF TurnOK, Thinking
<1> HIDE DEF r
<1>11. TurnOK(r, notices)
  BY <1>1, <1>6, <1>9, <1>10 DEF TurnOK
<1>12. Small(r, AutoEvaluated)
  BY <1>6, <1>7, <1>9 DEF Small, Harmless
<1> QED
  BY <1>2, <1>3, <1>4, <1>7, <1>8, <1>9, <1>11, <1>12

\* ... keeps the invariant.
LEMMA OrchestrateKeeps ==
  ASSUME TurnInv, NEW t \in Turns, turn[t].pc \in Thinking,
         NEW plan \in AllPlans, NEW blind \in BOOLEAN, blind => Harmless(plan),
         Orchestrate(t, plan, blind),
         UNCHANGED registry, fewshot' \in FewshotStates,
         UNCHANGED <<messages, notices, answered>>
  PROVE  TurnInv'
<1>1. PICK r \in TurnRecords :
        TurnOK(r, notices) /\ Small(r, AutoEvaluated) /\ turn' = [turn EXCEPT ![t] = r]
  BY OrchestrateMoves
<1>2. slots' \in Hashes /\ UNCHANGED backend
  BY OrchestrateMoves
<1>3. turn[t].pc # "done"
  BY DEF Thinking
<1> QED
  BY <1>1, <1>2, <1>3, OneTurnMoves

\* A turn that fails once its slots are written.
LEMMA FailWrittenMoves ==
  ASSUME TurnInv, NEW t \in Turns, NEW plan \in AllPlans, FailWritten(t, plan)
  PROVE  /\ \E r \in TurnRecords :
              /\ TurnOK(r, notices) /\ Small(r, AutoEvaluated)
              /\ r.plan = plan /\ r.pc = "failed"
              /\ turn' = [turn EXCEPT ![t] = r]
         /\ slots' = ApplyRedis(slots, plan.ops)
         /\ slots' \in Hashes /\ UNCHANGED backend
<1> DEFINE r == [Idle EXCEPT !.pc = "failed", !.plan = plan]
<1>1. /\ turn' = [turn EXCEPT ![t] = r] /\ UNCHANGED backend
      /\ slots' = ApplyRedis(slots, plan.ops)
  BY DEF FailWritten, SlotsAfter
<1>2. slots' \in Hashes
  BY <1>1, PlanFacts, RedisKeepsHash DEF TurnInv, Shape
<1>3. r \in TurnRecords
  <2>1. Idle \in TurnRecords /\ "failed" \in Places
    BY IdleFacts DEF Places
  <2> QED
    BY <2>1 DEF TurnRecords, Idle
<1>4. /\ r.pc = "failed" /\ r.plan = plan /\ r.round = 0 /\ r.before = 0
      /\ r.completed = {} /\ r.pending = {} /\ r.blind = FALSE /\ r.coupon = FALSE
  BY DEF Idle
<1> HIDE DEF r
<1>5. TurnOK(r, notices) /\ Small(r, AutoEvaluated)
  BY <1>4 DEF TurnOK, Small
<1> QED
  BY <1>1, <1>2, <1>3, <1>4, <1>5

\* ... keeps the invariant.
LEMMA FailWrittenKeeps ==
  ASSUME TurnInv, NEW t \in Turns, turn[t].pc \in Thinking,
         NEW plan \in AllPlans, FailWritten(t, plan),
         UNCHANGED registry, fewshot' \in FewshotStates,
         UNCHANGED <<messages, notices, answered>>
  PROVE  TurnInv'
<1>1. PICK r \in TurnRecords :
        TurnOK(r, notices) /\ Small(r, AutoEvaluated) /\ turn' = [turn EXCEPT ![t] = r]
  BY FailWrittenMoves
<1>2. slots' \in Hashes /\ UNCHANGED backend
  BY FailWrittenMoves
<1>3. turn[t].pc # "done"
  BY DEF Thinking
<1> QED
  BY <1>1, <1>2, <1>3, OneTurnMoves

\* A step of the planning carries out a plan of the LLM or of the rules, fails
\* before or after its slots are written, or is one more call.
LEMMA PlanningSteps ==
  ASSUME TurnInv, NEW t \in Turns, Plans(t)
  PROVE  /\ turn[t].pc \in Thinking
         /\ UNCHANGED <<registry, messages, notices, answered>>
         /\ fewshot' \in FewshotStates
         /\ \/ \E plan \in AllPlans, blind \in BOOLEAN :
                 (blind => Harmless(plan)) /\ Orchestrate(t, plan, blind)
            \/ \E plan \in AllPlans : FailWritten(t, plan)
            \/ Fail(t) /\ UNCHANGED slotVars
            \/ \E place \in {"call", "retry", "fix"} :
                 turn' = [turn EXCEPT ![t].pc = place] /\ UNCHANGED slotVars
<1> DEFINE Goal ==
             /\ turn[t].pc \in Thinking
             /\ fewshot' \in FewshotStates
             /\ \/ \E plan \in AllPlans, blind \in BOOLEAN :
                     (blind => Harmless(plan)) /\ Orchestrate(t, plan, blind)
                \/ \E plan \in AllPlans : FailWritten(t, plan)
                \/ Fail(t) /\ UNCHANGED slotVars
                \/ \E place \in {"call", "retry", "fix"} :
                     turn' = [turn EXCEPT ![t].pc = place] /\ UNCHANGED slotVars
<1>1. fewshot \in FewshotStates
  BY DEF TurnInv, Shape
<1>2. ASSUME turn[t].pc \in Thinking, Planned(t) PROVE Goal
  <2>1. fewshot' \in FewshotStates
    BY <1>1, <1>2 DEF Planned
  <2>2. CASE Fail(t) /\ UNCHANGED slotVars
    BY <1>2, <2>1, <2>2
  <2>3. ASSUME NEW p \in LlmAnswers,
               Orchestrate(t, Coerced(p), FALSE) \/ FailWritten(t, Coerced(p))
        PROVE  Goal
    <3>1. Coerced(p) \in AllPlans
      BY DEF AllPlans
    <3> QED
      BY <1>2, <2>1, <2>3, <3>1
  <2> QED
    BY <1>2, <2>2, <2>3 DEF Planned
<1>3. ASSUME turn[t].pc \in Thinking, FallBack(t) PROVE Goal
  <2>1. CASE fewshot' \in Prepared /\ \E x \in Texts, state \in {fewshot', "off"} :
               \E plan \in FallbackPlans[x][state] :
                 Orchestrate(t, plan, state = "off") \/ FailWritten(t, plan)
    <3>0. PICK x \in Texts, state \in {fewshot', "off"} :
            \E plan \in FallbackPlans[x][state] :
              Orchestrate(t, plan, state = "off") \/ FailWritten(t, plan)
      BY <2>1
    <3>1. PICK plan \in FallbackPlans[x][state] :
            Orchestrate(t, plan, state = "off") \/ FailWritten(t, plan)
      BY <3>0
    <3>2. fewshot' \in FewshotStates /\ state \in FewshotStates
      BY <1>1, <2>1 DEF Prepared, FewshotStates
    <3>3. plan \in AllPlans
      BY <3>2 DEF AllPlans
    <3>4. state = "off" => Harmless(plan)
      BY BlindPlansAreHarmless
    <3>5. (state = "off") \in BOOLEAN
      OBVIOUS
    <3> QED
      BY <1>3, <3>1, <3>2, <3>3, <3>4, <3>5
  <2>2. CASE fewshot' \in Broken /\ Fail(t) /\ UNCHANGED slotVars
    BY <1>1, <1>3, <2>2 DEF Broken, FewshotStates
  <2> QED
    BY <1>3, <2>1, <2>2 DEF FallBack
<1>4. ASSUME CallAnswers(t) PROVE Goal
  BY <1>2, <1>4 DEF CallAnswers, Thinking
<1>5. ASSUME FixAnswers(t) PROVE Goal
  BY <1>2, <1>5 DEF FixAnswers, Thinking
<1>6. ASSUME RetryFails(t) PROVE Goal
  BY <1>3, <1>6 DEF RetryFails, Thinking
<1>7. ASSUME FixFails(t) PROVE Goal
  BY <1>3, <1>7 DEF FixFails, Thinking
<1>8. ASSUME CallFails(t) PROVE Goal
  BY <1>1, <1>8 DEF CallFails, Thinking
<1>9. ASSUME CallGarbles(t) PROVE Goal
  BY <1>1, <1>9 DEF CallGarbles, Thinking
<1>10. Goal
  BY <1>4, <1>5, <1>6, <1>7, <1>8, <1>9 DEF Plans
<1> QED
  BY <1>10 DEF Plans

\* All of the planning keeps the invariant.
LEMMA PlansKeeps ==
  ASSUME TurnInv, NEW t \in Turns, Plans(t)
  PROVE  TurnInv'
<1>1. /\ turn[t].pc \in Thinking /\ turn[t].pc # "done"
      /\ UNCHANGED registry /\ UNCHANGED <<messages, notices, answered>>
      /\ fewshot' \in FewshotStates
  BY PlanningSteps DEF Thinking
<1>2. ASSUME NEW plan \in AllPlans, NEW blind \in BOOLEAN, blind => Harmless(plan),
             Orchestrate(t, plan, blind)
      PROVE  TurnInv'
  BY <1>1, <1>2, OrchestrateKeeps
<1>3. CASE Fail(t) /\ UNCHANGED slotVars
  BY <1>1, <1>3, FailKeeps
<1>4. ASSUME NEW place \in {"call", "retry", "fix"},
             turn' = [turn EXCEPT ![t].pc = place], UNCHANGED slotVars
      PROVE  TurnInv'
  <2>1. place \in Places /\ place \notin {"idle", "done", "failed"}
    BY <1>4 DEF Places, Thinking
  <2> QED
    BY <1>1, <1>4, <2>1, PlaceKeeps
<1>5. ASSUME NEW plan \in AllPlans, FailWritten(t, plan) PROVE TurnInv'
  BY <1>1, <1>5, FailWrittenKeeps
<1> QED
  BY <1>2, <1>3, <1>4, <1>5, PlanningSteps

\* The tools only send the turn on, or fail it.
LEMMA ToolsEndKeeps ==
  ASSUME TurnInv, NEW t \in Turns, ToolsEnd(t)
  PROVE  TurnInv'
<1>1. /\ turn[t].pc # "done" /\ UNCHANGED slotVars /\ UNCHANGED registry
      /\ fewshot' \in FewshotStates /\ UNCHANGED <<messages, notices, answered>>
  BY DEF ToolsEnd, TurnInv, Shape
<1>2. CASE turn' = [turn EXCEPT ![t].pc = "reply"]
  <2>1. "reply" \in Places
    BY DEF Places
  <2> QED
    BY <1>1, <1>2, <2>1, PlaceKeeps
<1>3. CASE Fail(t)
  BY <1>1, <1>3, FailKeeps
<1> QED
  BY <1>2, <1>3 DEF ToolsEnd

\* The answer: one more done turn, and one more answer remembered at most.  It
\* shows a coupon only if its round, and with it the answers remembered before,
\* came to enough.
LEMMA ReplyKeeps ==
  ASSUME TurnInv, NEW t \in Turns, Reply(t)
  PROVE  TurnInv'
<1> DEFINE coupon == ShouldIssue(turn[t].round, turn[t].plan)
           r == [Idle EXCEPT !.pc = "done", !.before = turn[t].before,
                             !.blind = turn[t].blind, !.coupon = coupon]
<1>1. /\ turn[t] \in TurnRecords /\ turn \in [Turns -> TurnRecords]
      /\ TurnOK(turn[t], notices) /\ turn[t].pc = "reply"
  BY DEF TurnInv, Shape, Reply
<1>2. /\ turn' = [turn EXCEPT ![t] = r]
      /\ UNCHANGED <<slots, backend, registry, fewshot, notices>>
      /\ \/ /\ \E recorded \in {1, 2} : messages' = Capped(messages + recorded)
            /\ answered' = answered + 1
         \/ UNCHANGED <<messages, answered>>
  BY DEF Reply, slotVars
<1>3. /\ turn[t].before \in Nat /\ turn[t].blind \in BOOLEAN /\ turn[t].round \in Nat
      /\ MinRounds \in Nat /\ HistoryMax \in Nat /\ Earlier \in Nat
  BY <1>1, TurnAssumption DEF TurnRecords
<1>4. coupon \in BOOLEAN
  BY DEF ShouldIssue
<1>5. coupon => turn[t].round > MinRounds /\ turn[t].plan.tasks \cap {"PRICE", "PRODUCT"} # {}
  BY DEF ShouldIssue
<1> HIDE DEF coupon
<1>6. "done" \in Places
  BY DEF Places
<1>7. r \in TurnRecords
  BY <1>3, <1>4, <1>6, IdleFacts DEF TurnRecords, Idle
<1>8. /\ r.pc = "done" /\ r.before = turn[t].before /\ r.blind = turn[t].blind
      /\ r.coupon = coupon /\ r.plan = NoPlan /\ r.round = 0
      /\ r.completed = {} /\ r.pending = {}
  BY DEF Idle
<1>9. TurnOK(r, notices)
  <2>1. notices = 0 => r.round <= r.before + 1
    BY <1>3, <1>8
  <2>2. coupon => (notices = 0 => turn[t].before >= MinRounds)
    BY <1>1, <1>3, <1>5 DEF TurnOK
  <2>3. turn[t].blind => ~ coupon
    BY <1>1, <1>5 DEF TurnOK, Harmless
  <2>4. Harmless(NoPlan)
    BY DEF Harmless, NoPlan
  <2> HIDE DEF r
  <2> QED
    BY <1>8, <2>1, <2>2, <2>3, <2>4 DEF TurnOK
<1> HIDE DEF r
<1>10. turn' \in [Turns -> TurnRecords]
       /\ \A u \in Turns : turn'[u] = IF u = t THEN r ELSE turn[u]
  BY <1>1, <1>2, <1>7
<1>11. messages \in 0 .. HistoryMax /\ answered \in Nat
  BY DEF TurnInv, Shape
<1>12. /\ messages' \in 0 .. HistoryMax /\ answered' \in Nat /\ answered' <= answered + 1
       /\ messages <= 2 * answered => messages' <= 2 * answered'
  BY <1>2, <1>3, <1>11 DEF Capped
<1>13. Shape'
  BY <1>2, <1>10, <1>12 DEF TurnInv, Shape
<1>14. Cardinality(Done') = Cardinality(Done) + 1 /\ Cardinality(Done) \in Nat
  <2>1. Done' = Done \cup {t} /\ t \notin Done
    BY <1>1, <1>8, <1>10 DEF Done
  <2>2. IsFiniteSet(Done) /\ Cardinality(Done) \in Nat
    BY TurnsFinite DEF Done
  <2> QED
    BY <2>1, <2>2, FS_AddElement
<1>15. AnswersCounted'
  BY <1>3, <1>11, <1>12, <1>14 DEF TurnInv, AnswersCounted
<1>16. MessagesCounted'
  BY <1>2, <1>12 DEF TurnInv, MessagesCounted
<1>17. \A u \in Turns : TurnOK(turn'[u], notices')
  BY <1>2, <1>9, <1>10 DEF TurnInv
<1>18. Small(r, AutoEvaluated)
  BY <1>8 DEF Small
<1>19. \A u \in Turns : Small(turn'[u], AutoEvaluated')
  BY <1>2, <1>10, <1>18 DEF TurnInv, AutoEvaluated
<1> QED
  BY <1>13, <1>15, <1>16, <1>17, <1>19 DEF TurnInv

\* A notice takes the place of an answer in the count of rounds, and is counted.
LEMMA NoticeKeeps == TurnInv /\ Notice => TurnInv'
<1> SUFFICES ASSUME TurnInv, Notice PROVE TurnInv'
  OBVIOUS
<1>1. /\ UNCHANGED <<slots, backend, registry, fewshot, turn, answered>>
      /\ notices' = notices + 1 /\ notices < MaxNotices
      /\ messages' = Capped(messages + 1)
  BY DEF Notice, slotVars
<1>2. /\ notices \in Nat /\ messages \in Nat /\ MaxNotices \in Nat /\ HistoryMax \in Nat
  BY TurnAssumption DEF TurnInv, Shape
<1>3. /\ notices' \in 0 .. MaxNotices /\ notices' # 0
      /\ messages' \in 0 .. HistoryMax
  BY <1>1, <1>2 DEF Capped
<1>4. Shape'
  BY <1>1, <1>3 DEF TurnInv, Shape
<1>5. AnswersCounted'
  BY <1>1 DEF TurnInv, AnswersCounted, Done
<1>6. MessagesCounted'
  BY <1>3 DEF MessagesCounted
<1>7. \A t \in Turns : TurnOK(turn'[t], notices')
  BY <1>1, <1>3 DEF TurnInv, TurnOK
<1>8. \A t \in Turns : Small(turn'[t], AutoEvaluated')
  BY <1>1 DEF TurnInv, AutoEvaluated
<1> QED
  BY <1>4, <1>5, <1>6, <1>7, <1>8 DEF TurnInv

\* A memory that was emptied holds no messages and no answers.
LEMMA ForgetKeeps == TurnInv /\ Forget => TurnInv'
<1> SUFFICES ASSUME TurnInv, Forget PROVE TurnInv'
  OBVIOUS
<1>1. /\ UNCHANGED <<slots, backend, registry, fewshot, turn, notices>>
      /\ messages' = 0 /\ answered' = 0
  BY DEF Forget, slotVars
<1>2. HistoryMax \in Nat /\ Earlier \in Nat /\ Cardinality(Done) \in Nat
  BY TurnAssumption, TurnsFinite DEF Done
<1>3. Shape'
  BY <1>1, <1>2 DEF TurnInv, Shape
<1>4. AnswersCounted' /\ MessagesCounted'
  BY <1>1, <1>2 DEF TurnInv, AnswersCounted, MessagesCounted, Done
<1>5. \A t \in Turns : TurnOK(turn'[t], notices') /\ Small(turn'[t], AutoEvaluated')
  BY <1>1 DEF TurnInv, AutoEvaluated
<1> QED
  BY <1>3, <1>4, <1>5 DEF TurnInv

\* Expired slots are unset.
LEMMA ExpireKeeps == TurnInv /\ Expire => TurnInv'
<1> SUFFICES ASSUME TurnInv, Expire PROVE TurnInv'
  OBVIOUS
<1>1. /\ UNCHANGED <<backend, registry, fewshot, turn, messages, notices, answered>>
      /\ slots' = Unset
  BY DEF Expire, SlotsExpire
<1>2. Shape'
  BY <1>1, UnsetIsHash DEF TurnInv, Shape
<1>3. AnswersCounted' /\ MessagesCounted'
  BY <1>1 DEF TurnInv, AnswersCounted, MessagesCounted, Done
<1>4. \A t \in Turns : Small(turn'[t], AutoEvaluated')
  BY <1>1 DEF TurnInv, AutoEvaluated
<1> QED
  BY <1>1, <1>2, <1>3, <1>4 DEF TurnInv

\* A restart fails the turns that run and keeps the others.
LEMMA RestartKeeps == TurnInv /\ Restart => TurnInv'
<1> SUFFICES ASSUME TurnInv, Restart PROVE TurnInv'
  OBVIOUS
<1> DEFINE failed == [Idle EXCEPT !.pc = "failed"]
<1>1. /\ turn' = [t \in Turns |-> IF Running(t) THEN failed ELSE turn[t]]
      /\ registry' \in Registries /\ backend' \in {"redis", "memory"} /\ fewshot' = "unset"
      /\ UNCHANGED <<slots, messages, notices, answered>>
  BY DEF Restart
<1>2. /\ failed \in TurnRecords /\ \A n : TurnOK(failed, n)
      /\ \A auto : Small(failed, auto)
      /\ failed.pc = "failed"
  BY IdleFacts DEF Idle
<1> HIDE DEF failed
<1>3. turn' \in [Turns -> TurnRecords]
      /\ \A t \in Turns : turn'[t] = IF Running(t) THEN failed ELSE turn[t]
  BY <1>1, <1>2 DEF TurnInv, Shape
<1>4. Shape'
  BY <1>1, <1>3 DEF TurnInv, Shape, FewshotStates
<1>5. Done' = Done
  BY <1>2, <1>3 DEF Done, Running
<1>6. AnswersCounted' /\ MessagesCounted'
  BY <1>1, <1>5 DEF TurnInv, AnswersCounted, MessagesCounted
<1>7. \A t \in Turns : TurnOK(turn'[t], notices')
  BY <1>1, <1>2, <1>3 DEF TurnInv
<1>8. ASSUME NEW t \in Turns, NEW auto PROVE Small(turn'[t], auto)
  <2>1. CASE Running(t)
    BY <1>2, <1>3, <2>1
  <2>2. CASE ~Running(t)
    BY <1>3, <2>2 DEF TurnInv, Small, Running
  <2> QED
    BY <2>1, <2>2
<1> QED
  BY <1>4, <1>6, <1>7, <1>8 DEF TurnInv

\* Every step keeps the invariant.
LEMMA NextTurns == TurnInv /\ [Next]_vars => TurnInv'
<1> SUFFICES ASSUME TurnInv, [Next]_vars PROVE TurnInv'
  OBVIOUS
<1>1. ASSUME NEW t \in Turns, Arrive(t) \/ TurnStep(t) PROVE TurnInv'
  BY <1>1, ArriveKeeps, BeginKeeps, PlansKeeps, ToolsEndKeeps, ReplyKeeps DEF TurnStep
<1>2. CASE Notice \/ Forget \/ Expire \/ Restart
  BY <1>2, NoticeKeeps, ForgetKeeps, ExpireKeeps, RestartKeeps
<1>3. CASE UNCHANGED vars
  BY <1>3 DEF vars, slotVars, TurnInv, Shape, AnswersCounted, MessagesCounted, Done, AutoEvaluated
<1> QED
  BY <1>1, <1>2, <1>3 DEF Next

\* The invariant of the turns.
THEOREM TurnInvariant == Spec => []TurnInv
BY InitTurns, NextTurns, PTL DEF Spec

-----------------------------------------------------------------------------
(***************************************************************************)
(* What follows                                                            *)
(***************************************************************************)

\* Every variable keeps its type: plans name known intents and emotions
\* whatever the LLM answered, a turn completes or postpones known skills, never
\* one of them both, and no more answers are remembered than there were.
THEOREM TurnTypes == Spec => []TypeOK
<1>1. TurnInv => TypeOK
  <2> SUFFICES ASSUME TurnInv PROVE TypeOK
    OBVIOUS
  <2>1. \A h \in Hashes : IsHash(h)
    BY DEF Hashes, IsHash
  <2>2. /\ IsHash(slots) /\ backend \in {"redis", "memory"} /\ fewshot \in FewshotStates
        /\ messages \in 0 .. HistoryMax /\ notices \in 0 .. MaxNotices
    BY <2>1 DEF TurnInv, Shape
  <2>3. RegistryTypeOK
    BY RegistriesAreTyped DEF TurnInv, Shape
  <2>4. answered \in 0 .. Earlier + MaxTurns
    <3>1. Cardinality(Done) \in Nat /\ Cardinality(Done) <= MaxTurns
      BY TurnsFinite DEF Done
    <3> QED
      BY <3>1, TurnAssumption DEF TurnInv, Shape, AnswersCounted
  <2>5. ASSUME NEW t \in Turns
        PROVE  /\ turn[t].pc \in Thinking \cup {"idle", "queued", "tools", "reply", "done", "failed"}
               /\ IsHash(turn[t].seen)
               /\ turn[t].round \in 0 .. HistoryMax + 1
               /\ turn[t].plan # NoPlan =>
                    turn[t].plan.intent \in KeywordIntents /\ turn[t].plan.emotion \in Emotions
               /\ turn[t].completed \cap turn[t].pending = {}
               /\ turn[t].completed \cup turn[t].pending \subseteq SkillNames
    <3>1. turn[t] \in TurnRecords /\ TurnOK(turn[t], notices)
      BY DEF TurnInv, Shape
    <3>2. /\ turn[t].pc \in Places /\ turn[t].seen \in Hashes /\ turn[t].plan \in AllPlans
          /\ turn[t].round \in 0 .. HistoryMax + 1
          /\ turn[t].completed \in SUBSET SkillNames /\ turn[t].pending \in SUBSET SkillNames
      BY <3>1 DEF TurnRecords
    <3> QED
      BY <2>1, <3>1, <3>2, PlanFacts DEF Places, TurnOK
  <2> QED
    BY <2>2, <2>3, <2>4, <2>5 DEF TypeOK
<1> QED
  BY <1>1, TurnInvariant, PTL

\* A coupon is shown only if MIN_ROUNDS turns had been answered and remembered
\* before its turn began (coupon_decider.py:73), whatever overlapped, failed or
\* was forgotten; only notices may take the place of answers.
THEOREM CouponsWait == Spec => []CouponAfterTwoRounds
<1>1. TurnInv => CouponAfterTwoRounds
  BY DEF TurnInv, Shape, TurnOK, CouponAfterTwoRounds
<1> QED
  BY <1>1, TurnInvariant, PTL

\* Without the LLM and the examples a turn is small talk (planner_fallback.py:169-182
\* with 204-281): whatever keywords a message holds, their weight alone never
\* reaches the bar, so that it attempts nothing but the skills of small talk and
\* those that are attempted always, and offers no coupon.
THEOREM KeywordsAloneAreHarmless == Spec => []KeywordsDecideNothing
<1>1. TurnInv => KeywordsDecideNothing
  BY DEF TurnInv, TurnOK, Small, Harmless, KeywordsDecideNothing
<1> QED
  BY <1>1, TurnInvariant, PTL

\* Of two versions of a skill the older serves the share of users it is rolled
\* out to (skill_registry.py:108-134).
THEOREM RolloutsAreShares == Spec => []RolloutIsShare
<1>1. TurnInv => RolloutIsShare
  BY SharesOfTwo DEF TurnInv, Shape
<1> QED
  BY <1>1, TurnInvariant, PTL

\* What a step of the planning does to the slots.
LEMMA PlansSpareSlots ==
  ASSUME TurnInv, NEW t \in Turns, Plans(t), slots' # slots
  PROVE  \E plan \in AllPlans :
           /\ turn[t].pc \in Thinking /\ turn'[t].pc \in {"tools", "reply", "failed"}
           /\ turn'[t].plan = plan
           /\ slots' = ApplyRedis(slots, plan.ops)
<1>1. turn[t].pc \in Thinking /\ turn \in [Turns -> TurnRecords]
  BY PlanningSteps DEF TurnInv, Shape
<1>2. PICK plan \in AllPlans :
        \/ \E blind \in BOOLEAN : (blind => Harmless(plan)) /\ Orchestrate(t, plan, blind)
        \/ FailWritten(t, plan)
  BY PlanningSteps DEF slotVars
<1>3. PICK r \in TurnRecords :
        /\ r.plan = plan /\ r.pc \in {"tools", "reply", "failed"}
        /\ turn' = [turn EXCEPT ![t] = r]
        /\ slots' = ApplyRedis(slots, plan.ops)
  <2>1. CASE FailWritten(t, plan)
    BY <2>1, FailWrittenMoves
  <2>2. ASSUME NEW blind \in BOOLEAN, blind => Harmless(plan), Orchestrate(t, plan, blind)
        PROVE  \E r \in TurnRecords :
                 /\ r.plan = plan /\ r.pc \in {"tools", "reply", "failed"}
                 /\ turn' = [turn EXCEPT ![t] = r]
                 /\ slots' = ApplyRedis(slots, plan.ops)
    <3>1. slots' = IF backend = "redis" THEN ApplyRedis(slots, plan.ops) ELSE slots
      BY <1>1, <2>2, OrchestrateMoves
    <3>2. slots' = ApplyRedis(slots, plan.ops)
      BY <3>1
    <3> QED
      BY <1>1, <2>2, <3>2, OrchestrateMoves
  <2> QED
    BY <1>2, <2>1, <2>2
<1>4. turn'[t] = r
  BY <1>1, <1>3
<1> QED
  BY <1>1, <1>3, <1>4

\* No step but that of a turn whose plan names the slot changes it, and the
\* expiry, which takes them all.
LEMMA SlotsAreSpared ==
  ASSUME TurnInv, [Next]_vars, NEW s \in Slots, slots' # slots,
         NEW before, before = IF s \in DOMAIN slots THEN <<slots[s]>> ELSE <<>>,
         NEW after, after = IF s \in DOMAIN slots' THEN <<slots'[s]>> ELSE <<>>,
         before # after
  PROVE  \/ slots' = Unset /\ turn' = turn
         \/ \E t \in Turns :
              /\ turn[t].pc \in Thinking /\ turn'[t].pc \in {"tools", "reply", "failed"}
              /\ \E k \in DOMAIN turn'[t].plan.ops : turn'[t].plan.ops[k].slot = s
<1>1. ASSUME NEW t \in Turns, Plans(t)
      PROVE  /\ turn[t].pc \in Thinking /\ turn'[t].pc \in {"tools", "reply", "failed"}
             /\ \E k \in DOMAIN turn'[t].plan.ops : turn'[t].plan.ops[k].slot = s
  <2>1. PICK plan \in AllPlans :
          /\ turn[t].pc \in Thinking /\ turn'[t].pc \in {"tools", "reply", "failed"}
          /\ turn'[t].plan = plan
          /\ slots' = ApplyRedis(slots, plan.ops)
    BY <1>1, PlansSpareSlots
  <2>2. s \in Named(plan.ops)
    <3>1. ASSUME s \notin Named(plan.ops) PROVE before = after
      BY <2>1, <3>1, UnnamedSlotStays
    <3> QED
      BY <3>1
  <2> QED
    BY <2>1, <2>2 DEF Named
<1>2. ASSUME NEW t \in Turns, Arrive(t) \/ Begin(t) \/ ToolsEnd(t) \/ Reply(t) PROVE FALSE
  BY <1>2 DEF Arrive, Begin, ToolsEnd, Reply, slotVars
<1>3. ASSUME Notice \/ Forget \/ Restart \/ UNCHANGED vars PROVE FALSE
  BY <1>3 DEF Notice, Forget, Restart, vars, slotVars
<1>4. CASE Expire
  BY <1>4 DEF Expire, SlotsExpire
<1> QED
  BY <1>1, <1>2, <1>3, <1>4 DEF Next, TurnStep

\* Turns that overlap between their read of the slots and their write do not
\* undo each other (orchestrator.py:469-479), nor does one that fails after its
\* write (127-129): a step changes only the slots that the plan it carries out
\* names.
THEOREM NoTurnUndoesAnother == Spec => NoLostSlot
<1>1. TurnInv /\ [Next]_vars =>
        [\A s \in Slots :
           LET value(h) == IF s \in DOMAIN h THEN <<h[s]>> ELSE <<>>
           IN  value(slots) # value(slots') =>
                 \/ slots' = Unset /\ turn' = turn
                 \/ \E t \in Turns :
                      /\ turn[t].pc \in Thinking /\ turn'[t].pc \in {"tools", "reply", "failed"}
                      /\ \E k \in DOMAIN turn'[t].plan.ops : turn'[t].plan.ops[k].slot = s]_vars
  <2> SUFFICES ASSUME TurnInv, [Next]_vars, NEW s \in Slots,
                      NEW before, before = IF s \in DOMAIN slots THEN <<slots[s]>> ELSE <<>>,
                      NEW after, after = IF s \in DOMAIN slots' THEN <<slots'[s]>> ELSE <<>>,
                      before # after
               PROVE  \/ slots' = Unset /\ turn' = turn
                      \/ \E t \in Turns :
                           /\ turn[t].pc \in Thinking /\ turn'[t].pc \in {"tools", "reply", "failed"}
                           /\ \E k \in DOMAIN turn'[t].plan.ops : turn'[t].plan.ops[k].slot = s
    OBVIOUS
  <2>1. slots' # slots
    OBVIOUS
  <2> QED
    BY <2>1, SlotsAreSpared
<1> QED
  BY <1>1, TurnInvariant, PTL DEF Spec, NoLostSlot
===============================================================================
