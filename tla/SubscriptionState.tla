-------------------------- MODULE SubscriptionState --------------------------
(***************************************************************************)
(* The subscription table of one SUB, XSUB or DISH socket                  *)
(* (libzmq-core/src/context.rs, struct SubscriptionState).  The table      *)
(* counts how often each topic was subscribed and keeps four caches that   *)
(* matches_prefix_of consults on the delivery path of every message.       *)
(*                                                                         *)
(* Vectors without duplicates whose order nothing here observes            *)
(* (prefixes, lengths) are sets, and the 256-entry bitmap first_bytes is   *)
(* the set of the bytes whose entry is true.  A topic without a key in the *)
(* hash map `exact' has count 0.                                           *)
(***************************************************************************)
EXTENDS Naturals, Sequences

CONSTANTS
  Byte,     \* the bytes topics and messages are made of
  Topic,    \* the topics a caller subscribes to: byte strings
  Data,     \* the message bodies offered for matching: byte strings
  MaxRefs   \* bound on the count of one topic

ASSUME ByteStringAssumption ==
  /\ Topic \subseteq Seq(Byte)
  /\ Data \subseteq Seq(Byte)
  /\ MaxRefs \in Nat

VARIABLES
  exact,       \* exact[t]: how many subscriptions to t are outstanding
  prefixes,    \* the topics with an outstanding subscription
  firstBytes,  \* cache: first bytes of the non-empty ones
  lengths,     \* cache: their lengths
  hasEmpty,    \* cache: is the empty topic one of them
  ret          \* what the last insert or remove returned

tables == <<prefixes, firstBytes, lengths, hasEmpty>>
vars == <<exact, prefixes, firstBytes, lengths, hasEmpty, ret>>

TypeOK ==
  /\ exact \in [Topic -> Nat]
  /\ prefixes \subseteq Topic
  /\ firstBytes \subseteq Byte
  /\ lengths \subseteq Nat
  /\ hasEmpty \in BOOLEAN
  /\ ret \in BOOLEAN

-----------------------------------------------------------------------------
(* The set holding the first byte of t, empty when t is. *)
FirstByte(t) == IF t = <<>> THEN {} ELSE {t[1]}

FirstBytesOf(S) == UNION {FirstByte(t) : t \in S}
LengthsOf(S) == {Len(t) : t \in S}

(* Mutant: the entry of the removed topic is cleared, nothing is rebuilt. *)
FirstBytesCleared(t) == firstBytes \ FirstByte(t)

(* first_bytes as remove rebuilds it from the topics other than t. *)
FirstBytesLeft(t) == FirstBytesOf(prefixes \ {t})

ContainsExact(t) == t \in Topic /\ exact[t] > 0

(***************************************************************************)
(* matches_prefix_of: the empty topic matches everything; otherwise the    *)
(* first byte of the message must be the first byte of some topic, and     *)
(* some stored length must cut the message down to a stored topic.         *)
(***************************************************************************)
MatchesPrefixOf(data) ==
  \/ hasEmpty
  \/ /\ data # <<>>
     /\ data[1] \in firstBytes
     /\ \E n \in lengths : n <= Len(data) /\ ContainsExact(SubSeq(data, 1, n))

-----------------------------------------------------------------------------
Init ==
  /\ exact = [t \in Topic |-> 0]
  /\ prefixes = {}
  /\ firstBytes = {}
  /\ lengths = {}
  /\ hasEmpty = FALSE
  /\ ret = FALSE

(* insert of a topic that is already in the table: only the count moves. *)
InsertDuplicate(t) ==
  /\ exact[t] \in 1 .. MaxRefs - 1
  /\ exact' = [exact EXCEPT ![t] = @ + 1]
  /\ ret' = FALSE
  /\ UNCHANGED tables

InsertNew(t) ==
  /\ exact[t] = 0
  /\ MaxRefs > 0
  /\ exact' = [exact EXCEPT ![t] = 1]
  /\ hasEmpty' = (hasEmpty \/ t = <<>>)
  /\ firstBytes' = firstBytes \cup FirstByte(t)
  /\ lengths' = lengths \cup {Len(t)}
  /\ prefixes' = prefixes \cup {t}
  /\ ret' = TRUE

(* Mutant: every remove of a counted topic claims to be the last. *)
RemoveReportsAll(t) ==
  /\ exact[t] > 1
  /\ exact' = [exact EXCEPT ![t] = @ - 1]
  /\ ret' = TRUE
  /\ UNCHANGED tables

(* remove of a topic subscribed more than once: only the count moves. *)
RemoveDuplicate(t) ==
  /\ exact[t] > 1
  /\ exact' = [exact EXCEPT ![t] = @ - 1]
  /\ ret' = FALSE
  /\ UNCHANGED tables

RemoveAbsent(t) ==
  /\ exact[t] = 0
  /\ ret' = FALSE
  /\ UNCHANGED <<exact, tables>>

(* remove of the last reference: the caches are rebuilt from what is left. *)
RemoveLast(t) ==
  /\ exact[t] = 1
  /\ exact' = [exact EXCEPT ![t] = 0]
  /\ prefixes' = prefixes \ {t}
  /\ hasEmpty' = ContainsExact(<<>>)'
  /\ firstBytes' = FirstBytesLeft(t)
  /\ lengths' = LengthsOf(prefixes')
  /\ ret' = TRUE

Next ==
  \E t \in Topic :
    \/ InsertNew(t)
    \/ InsertDuplicate(t)
    \/ RemoveDuplicate(t)
    \/ RemoveLast(t)
    \/ RemoveAbsent(t)

Spec == Init /\ [][Next]_vars

-----------------------------------------------------------------------------
Subscribed == {t \in Topic : exact[t] > 0}

StartsWith(data, t) ==
  Len(t) <= Len(data) /\ \A i \in 1 .. Len(t) : data[i] = t[i]

(***************************************************************************)
(* Whatever sequence of inserts and removes led here, each cache holds     *)
(* exactly what the reference counts say it should: remove rebuilds the    *)
(* caches without losing what the topics that stay contribute.             *)
(***************************************************************************)
CachesAgree ==
  /\ prefixes = Subscribed
  /\ hasEmpty <=> <<>> \in Subscribed
  /\ firstBytes = FirstBytesOf(Subscribed)
  /\ lengths = LengthsOf(Subscribed)

(***************************************************************************)
(* matches_prefix_of, which never looks at the list of topics, accepts a   *)
(* message exactly when some topic with an outstanding subscription is a   *)
(* prefix of it.  No subscriber misses a message it subscribed to, none    *)
(* gets one it did not.                                                    *)
(***************************************************************************)
MatchIsPrefixMatch ==
  \A d \in Data : MatchesPrefixOf(d) <=> \E t \in Subscribed : StartsWith(d, t)

(***************************************************************************)
(* The table is exact: no sequence of overlapping inserts and removes      *)
(* leaves a cache behind, so what matches_prefix_of decides with the       *)
(* caches alone is what the subscribed topics say.                         *)
(***************************************************************************)
TableExact == CachesAgree /\ MatchIsPrefixMatch

(***************************************************************************)
(* insert and remove return true exactly when the set of subscribed topics *)
(* changes; the XPUB notifications are driven by that result.              *)
(***************************************************************************)
ResultReportsEdge ==
  [][ret' <=> (Subscribed' # Subscribed)]_vars
=============================================================================
