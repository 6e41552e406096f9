-------------------------- MODULE ConversationMemory --------------------------
(***************************************************************************)
(* The memory of one conversation (memory/conversation_memory.py): the     *)
(* working memory and the summary in Redis, the episodic memory and the    *)
(* profile in ChromaDB, and the tasks that write them.                     *)
(*                                                                         *)
(* A message is its number.  The list is written the way                   *)
(* _get_working_memory returns it, so a push on the left of the Redis list *)
(* is an Append.  A summary is the messages it summarises.  Every call of  *)
(* Redis and ChromaDB is blocking, so tasks interleave only where they     *)
(* await the LLM.                                                          *)
(***************************************************************************)
EXTENDS Naturals, Sequences, FiniteSets, SequencesExt

CONSTANTS
  Writers,      \* tasks that may be inside add_message at one time
  Updaters,     \* tasks that may be inside update_profile at one time
  CompressAt,   \* COMPRESS_AT (15)
  WorkingMax,   \* WORKING_MAX (20)
  Keep,         \* messages a compression keeps (5)
  MaxMessages,  \* BOUND: messages said
  MaxFaults     \* BOUND: failures of Redis, ChromaDB or the LLM, and restarts

ASSUME MemoryAssumption ==
  /\ CompressAt \in Nat /\ WorkingMax \in Nat /\ Keep \in Nat
  /\ 0 < CompressAt /\ 2 * Keep <= CompressAt /\ CompressAt <= WorkingMax
  /\ MaxMessages \in Nat /\ MaxFaults \in Nat

VARIABLES
  wm,         \* the list wm:<user>:<conv>
  summary,    \* the key summary:<user>:<conv>
  episodic,   \* messages whose text is in the episodic collection
  snapshot,   \* writer -> what its compression has read, or <<>>
  profile,    \* last message of the list the profile document was made from, or 0
  reading,    \* updater -> last message of the list its update has read, or 0
  said,       \* history: messages handed to add_message
  cleared,    \* history: said when the working memory was last cleared
  latest,     \* history: last message of the list that the last update to begin
              \* since clear_profile has read, or 0
  disturbed,  \* history: a push or a clear met a running compression, or a key expired
  overtaken,  \* history: an update began while another was running
  faults      \* failures so far

vars == <<wm, summary, episodic, snapshot, profile, reading,
          said, cleared, latest, disturbed, overtaken, faults>>

Messages == 1 .. MaxMessages
Elems(s) == {s[i] : i \in DOMAIN s}
First(s, n) == SubSeq(s, 1, n)
Newest(s, n) == IF Len(s) <= n THEN s ELSE SubSeq(s, Len(s) - n + 1, Len(s))

\* Every variable keeps its type, and a running compression has read at least
\* the threshold and at most the window (conversation_memory.py:385-387, 442).
TypeOK ==
  /\ wm \in Seq(Messages)
  /\ summary \in Seq(Messages)
  /\ episodic \subseteq Messages
  /\ snapshot \in [Writers -> Seq(Messages)]
  /\ \A t \in Writers :
       Len(snapshot[t]) \in {0} \cup (CompressAt .. WorkingMax)
  /\ profile \in 0 .. said
  /\ reading \in [Updaters -> 0 .. said]
  /\ said \in 0 .. MaxMessages
  /\ cleared \in 0 .. said
  /\ latest \in 0 .. said
  /\ disturbed \in BOOLEAN
  /\ overtaken \in BOOLEAN
  /\ faults \in 0 .. MaxFaults

Init ==
  /\ wm = <<>>
  /\ summary = <<>>
  /\ episodic = {}
  /\ snapshot = [t \in Writers |-> <<>>]
  /\ profile = 0
  /\ reading = [u \in Updaters |-> 0]
  /\ said = 0
  /\ cleared = 0
  /\ latest = 0
  /\ disturbed = FALSE
  /\ overtaken = FALSE
  /\ faults = 0

Compressing(t) == snapshot[t] # <<>>
Busy == \E t \in Writers : Compressing(t)

\* Something fails, while the bound allows it.
Fault == faults < MaxFaults /\ faults' = faults + 1
NoFault == UNCHANGED faults

profileVars == <<profile, reading, latest, overtaken>>

\* _get_working_memory: the last WorkingMax messages pushed, or all of them.
RecentUnbounded(list) == list
Recent(list) == Newest(list, WorkingMax)

\* messages[:-5] and messages[-5:] of what a compression has read, and a
\* split that leaves a message between the two.
OldOneShort(read) == First(read, Len(read) - Keep - 1)
Old(read) == First(read, Len(read) - Keep)
Kept(read) == Newest(read, Keep)

\* The threshold, and one that is never met before the window is full.
DueBeyondWindow(list) == Len(list) > WorkingMax
Due(list) == Len(list) >= CompressAt

\* add_message: the push, then the length, then the read of _compress up to
\* the await of the LLM.  An error of Redis ends it at any of these calls and
\* is swallowed.
Add(t) ==
  /\ ~ Compressing(t)
  /\ said < MaxMessages
  /\ said' = said + 1
  /\ disturbed' = (disturbed \/ Busy)
  /\ LET pushed == Append(wm, said + 1) IN
       \/ /\ wm' = pushed
          /\ snapshot' = IF Due(pushed)
                         THEN [snapshot EXCEPT ![t] = Recent(pushed)]
                         ELSE snapshot
          /\ NoFault
       \/ /\ wm' \in {wm, pushed}
          /\ UNCHANGED snapshot
          /\ Fault
  /\ UNCHANGED <<summary, episodic, cleared, profileVars>>

\* _compress after the LLM: what the summary key holds then.  Without an
\* answer a sentence takes the place of the summary and tells nothing of the
\* messages.
Summarised(t, answered) ==
  IF answered THEN summary \o Old(snapshot[t]) ELSE summary

\* The list afterwards: the kept messages are pushed again from the last to the
\* first, which turns them round.  And a list that was not deleted before.
ReplacedNoDelete(t) == wm \o Reverse(Kept(snapshot[t]))
Replaced(t) == Reverse(Kept(snapshot[t]))

\* _compress after the LLM answered: summary, episodic memory (whose error is
\* swallowed), and the list is replaced by the messages kept.
Compress(t) ==
  /\ Compressing(t)
  /\ \E answered, archived \in BOOLEAN :
       /\ IF answered /\ archived THEN NoFault ELSE Fault
       /\ summary' = Summarised(t, answered)
       /\ episodic' = IF archived THEN episodic \cup Elems(Old(snapshot[t]))
                      ELSE episodic
  /\ wm' = Replaced(t)
  /\ snapshot' = [snapshot EXCEPT ![t] = <<>>]
  /\ UNCHANGED <<said, cleared, disturbed, profileVars>>

\* _compress when Redis fails, or the process dies, before the summary was
\* written, before the list was deleted, or after some or all of the kept
\* messages were pushed again.
CompressFails(t) ==
  /\ Compressing(t)
  /\ Fault
  /\ \/ UNCHANGED <<wm, summary, episodic>>
     \/ /\ summary' = Summarised(t, TRUE)
        /\ episodic' = episodic \cup Elems(Old(snapshot[t]))
        /\ \/ UNCHANGED wm
           \/ \E n \in 0 .. Keep : wm' = First(Replaced(t), n)
  /\ snapshot' = [snapshot EXCEPT ![t] = <<>>]
  /\ UNCHANGED <<said, cleared, disturbed, profileVars>>

\* update_profile up to the await of the LLM: without a message it returns.
StartUpdate(u) ==
  /\ reading[u] = 0
  /\ wm # <<>>
  /\ reading' = [reading EXCEPT ![u] = wm[Len(wm)]]
  /\ latest' = wm[Len(wm)]
  /\ overtaken' = (overtaken \/ \E v \in Updaters : reading[v] # 0)
  /\ UNCHANGED <<wm, summary, episodic, snapshot, profile, said, cleared,
                 disturbed, faults>>

\* An update that does not delete first: ChromaDB ignores an id it has.
FinishUpdateNoDelete(u) ==
  /\ reading[u] # 0
  /\ NoFault
  /\ profile' = IF profile = 0 THEN reading[u] ELSE profile
  /\ reading' = [reading EXCEPT ![u] = 0]
  /\ UNCHANGED <<wm, summary, episodic, snapshot, said, cleared, latest,
                 disturbed, overtaken>>

\* update_profile after the LLM: delete and add.  Without an answer that can
\* be parsed the document stays; when the delete fails the add finds the id
\* and changes nothing; when the add fails the document is gone.
FinishUpdate(u) ==
  /\ reading[u] # 0
  /\ \/ profile' = reading[u] /\ NoFault
     \/ profile' \in {profile, 0} /\ Fault
  /\ reading' = [reading EXCEPT ![u] = 0]
  /\ UNCHANGED <<wm, summary, episodic, snapshot, said, cleared, latest,
                 disturbed, overtaken>>

\* A clear that leaves the summary.
ClearWorkingOnly ==
  /\ wm' = <<>>
  /\ cleared' = said
  /\ disturbed' = (disturbed \/ Busy)
  /\ UNCHANGED <<summary, episodic, snapshot, said, profileVars, faults>>

\* clear_working_memory: list and summary.
ClearWorking ==
  /\ wm' = <<>>
  /\ summary' = <<>>
  /\ cleared' = said
  /\ disturbed' = (disturbed \/ Busy)
  /\ UNCHANGED <<episodic, snapshot, said, profileVars, faults>>

\* clear_episodic.
ClearEpisodic ==
  /\ episodic' = {}
  /\ UNCHANGED <<wm, summary, snapshot, said, cleared, disturbed, profileVars,
                 faults>>

\* clear_profile; an update that is running will add its document again.
ClearProfile ==
  /\ profile' = 0
  /\ latest' = 0
  /\ overtaken' = (overtaken \/ \E v \in Updaters : reading[v] # 0)
  /\ UNCHANGED <<wm, summary, episodic, snapshot, reading, said, cleared,
                 disturbed, faults>>

\* A key lives 24 hours after its last write.  A compression writes the list
\* after the summary and a message writes only the list, so the summary is
\* the first of the two to expire.
Expire ==
  /\ \/ summary # <<>> /\ summary' = <<>> /\ UNCHANGED wm
     \/ summary = <<>> /\ wm # <<>> /\ wm' = <<>> /\ UNCHANGED summary
  /\ disturbed' = TRUE
  /\ UNCHANGED <<episodic, snapshot, said, cleared, profileVars, faults>>

\* The process starts again: its tasks are gone, the stores are not.
Restart ==
  /\ Busy \/ \E u \in Updaters : reading[u] # 0
  /\ Fault
  /\ snapshot' = [t \in Writers |-> <<>>]
  /\ reading' = [u \in Updaters |-> 0]
  /\ UNCHANGED <<wm, summary, episodic, profile, said, cleared, latest,
                 disturbed, overtaken>>

Next ==
  \/ \E t \in Writers : Add(t) \/ Compress(t) \/ CompressFails(t)
  \/ \E u \in Updaters : StartUpdate(u) \/ FinishUpdate(u)
  \/ ClearWorking \/ ClearEpisodic \/ ClearProfile
  \/ Expire \/ Restart

\* The LLM client answers or gives up.
Fairness == \A t \in Writers : WF_vars(Compress(t) \/ CompressFails(t))

Spec == Init /\ [][Next]_vars /\ Fairness

\* get_context: what the next turn is shown of this conversation.
Context == summary \o Recent(wm)

\* The list is in the order in which its messages were said
\* (conversation_memory.py:436: "Message 列表，按时间正序").
ListIsChronological ==
  \A i, j \in DOMAIN wm : i < j => wm[i] < wm[j]

\* The first k messages of the list run backwards, the others forwards and are
\* newer than every one of the first.
TurnedUpTo(list, k) ==
  \A i, j \in DOMAIN list :
    i < j => IF j <= k THEN list[j] < list[i] ELSE list[i] < list[j]

\* Whatever overlaps or fails, no message is in the list twice, and only the
\* messages one compression pushed back, at the start, are out of order: they
\* run backwards, the next compression does not keep them again, and what was
\* said later follows them in order (conversation_memory.py:389-390, 415-420).
OnlyKeptAreTurned == \E k \in 0 .. Keep : TurnedUpTo(wm, k)

\* While no message and no clear meets a running compression and nothing
\* fails or expires, the next turn is shown everything said since the last
\* clear and nothing said before it, each message once, as itself or through
\* the summary (conversation_memory.py:171-173, 362-364, 389-421).
AllSaidIsInContext ==
  ~ disturbed /\ faults = 0 =>
    /\ Len(Context) = said - cleared
    /\ Elems(Context) = cleared + 1 .. said

\* What the step drops from the list and leaves nowhere else.
Dropped == Elems(wm) \ (Elems(wm') \cup Elems(summary') \cup episodic')

\* A message leaves the list without a trace only with the whole list (a clear,
\* expiry), by a failure, or by a compression that had not read it: it was pushed during
\* the await or lay beyond the window (conversation_memory.py:385, 415).
DroppedWasUnread ==
  [][ \/ Dropped = {}
      \/ wm' = <<>>
      \/ faults' # faults
      \/ \E t \in Writers :
           /\ Compressing(t) /\ snapshot'[t] = <<>>
           /\ Dropped \cap Elems(snapshot[t]) = {} ]_vars

\* While updates do not overlap and nothing fails, the profile is the one
\* distilled from the list the last update has read
\* (conversation_memory.py:215-226).
ProfileIsLatest ==
  (\A u \in Updaters : reading[u] = 0) /\ ~ overtaken /\ faults = 0 =>
    profile = latest

\* A list that has reached the threshold gets shorter again, unless a call
\* failed: then it waits for the next message (conversation_memory.py:172-175).
ListIsCutBack ==
  Len(wm) >= CompressAt ~> Len(wm) < CompressAt \/ faults > 0
===============================================================================
