------------------------------ MODULE SlotManager ------------------------------
(***************************************************************************)
(* The slots of one conversation (agents/slot_manager.py).  With Redis     *)
(* they live in one hash; without it every turn builds its own             *)
(* SlotManager (orchestrator.py:439-445) and its dict ends with the turn.  *)
(* A slot that is not set is outside the function's domain.                *)
(***************************************************************************)
EXTENDS Naturals, Sequences

CONSTANTS
  Slots,    \* slot names
  Values,   \* what a slot may be set to
  Null,     \* a SET whose value the LLM left null
  Blank     \* what null is after its way through Redis: the empty text

VARIABLES
  slots,     \* the hash slot:<user>:<conv>
  backend    \* "redis" or "memory", found out when the engine is built

slotVars == <<slots, backend>>

Ops == [op : {"SET", "DELETE"}, slot : Slots, value : Values \cup {Null}]
IsHash(h) == DOMAIN h \subseteq Slots /\ \A s \in DOMAIN h : h[s] \in Values \cup {Null, Blank}
Unset == [s \in {} |-> Blank]

\* json.dumps and json.loads around the hash keep a value; null is written as
\* the empty text, which no longer counts as missing.
Serialized(v) == IF v = Null THEN Blank ELSE v

Named(ops) == {ops[k].slot : k \in DOMAIN ops}

\* The operation that decides about a slot: the last one that names it.
LastOn(ops, s) ==
  ops[CHOOSE k \in DOMAIN ops :
        ops[k].slot = s /\ \A j \in DOMAIN ops : ops[j].slot = s => j <= k]

\* What is left of h once the operations are carried out in their order.
Applied(h, ops, written(_)) ==
  [s \in (DOMAIN h \ Named(ops)) \cup {s \in Named(ops) : LastOn(ops, s).op = "SET"} |->
     IF s \in Named(ops) THEN written(LastOn(ops, s).value) ELSE h[s]]

ApplyRedis(h, ops) == Applied(h, ops, Serialized)

\* A dict of the turn's own; that a null sets no new key makes no difference to
\* a reader, who takes a null for missing.
ApplyMemory(ops) == Applied(Unset, ops, LAMBDA v : v)

\* What SlotManager.all returns at the beginning of a turn.
AllSlots == IF backend = "redis" THEN slots ELSE Unset

\* The TTL of the hash, seven days after the last turn.
SlotsExpire ==
  /\ slots # Unset
  /\ slots' = Unset
  /\ UNCHANGED backend
================================================================================
