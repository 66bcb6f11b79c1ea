-------------------------------- MODULE NfcTag --------------------------------
(***************************************************************************)
(* The tag objects of src/NfcTag.cpp and the messages they own.            *)
(*                                                                         *)
(* A tag object holds the identity of a tag and a pointer to a message on  *)
(* the heap, or a null pointer.  Constructors create the message, the      *)
(* destructor and the assignment delete it.  A message is a value here;    *)
(* NdefMessage has the records it owns in turn.                            *)
(***************************************************************************)
EXTENDS Integers, FiniteSets

CONSTANTS
  TagVars,       \* the tag variables of a sketch
  MaxMessages    \* bound: messages of tag objects alive at a time

Null == 0
MessagePointers == 1 .. MaxMessages

ASSUME NfcTagAssumption == MaxMessages \in Nat

VARIABLES
  tags,      \* the tag objects that exist
  messages   \* the messages that were created and not deleted, by pointer

tagVars == <<tags, messages>>

TagAlive(t) == t \in DOMAIN tags
HasNdefMessage(t) == tags[t].message # Null
Message(t) == messages[tags[t].message]

With(f, x, v) ==
  [y \in DOMAIN f \cup {x} |-> IF y = x THEN v ELSE f[y]]
Without(f, x) == [y \in DOMAIN f \ {x} |-> f[y]]

\* A pointer that is free once `deleted` is.
FreshMessage(deleted) ==
  CHOOSE p \in MessagePointers : p \notin DOMAIN messages \ {deleted}
MessageRoom(n) == Cardinality(DOMAIN messages) + n <= MaxMessages
-----------------------------------------------------------------------------
\* NfcTag(tag, tagType) and NfcTag(tag, tagType, isFormatted)
NewTag(t, uid, type, isFormatted) ==
  /\ ~TagAlive(t)
  /\ tags' = With(tags, t, [uid |-> uid, type |-> type,
                            formatted |-> isFormatted, message |-> Null])
  /\ UNCHANGED messages

\* NfcTag(tag, tagType, ndefMessage) and
\* NfcTag(tag, tagType, ndefData, ndefDataLength)
NewTagWith(t, uid, type, m) ==
  /\ ~TagAlive(t) /\ MessageRoom(1)
  /\ tags' = With(tags, t, [uid |-> uid, type |-> type, formatted |-> TRUE,
                            message |-> FreshMessage(Null)])
  /\ messages' = With(messages, FreshMessage(Null), m)

\* Mutation of DeleteTag: the message is forgotten.
DeleteTagOnly(t) == TagAlive(t) /\ tags' = Without(tags, t) /\ UNCHANGED messages

\* ~NfcTag
DeleteTag(t) ==
  /\ TagAlive(t)
  /\ tags' = Without(tags, t)
  /\ messages' = Without(messages, tags[t].message)

\* Mutation of AssignTag: the identity is forgotten.
AssignMessageOnly(t, rhs) ==
  /\ TagAlive(t) /\ TagAlive(rhs) /\ t # rhs /\ HasNdefMessage(rhs)
  /\ MessageRoom(IF HasNdefMessage(t) THEN 0 ELSE 1)
  /\ LET p == FreshMessage(tags[t].message)
     IN  /\ tags' = [tags EXCEPT ![t].message = p]
         /\ messages' =
              With(Without(messages, tags[t].message), p, Message(rhs))

\* operator=, defined for a right side that has a message only: it is copied
\* without a test for a null pointer.  Type and formatted stay those of the
\* target.
AssignTag(t, rhs) ==
  /\ TagAlive(t) /\ TagAlive(rhs) /\ t # rhs /\ HasNdefMessage(rhs)
  /\ MessageRoom(IF HasNdefMessage(t) THEN 0 ELSE 1)
  /\ LET p == FreshMessage(tags[t].message)
     IN  /\ tags' = [tags EXCEPT ![t].message = p, ![t].uid = tags[rhs].uid]
         /\ messages' =
              With(Without(messages, tags[t].message), p, Message(rhs))
-----------------------------------------------------------------------------
\* Every message on the heap belongs to exactly one tag object: none is
\* leaked, deleted twice or used after it was deleted.
MessagesOwned ==
  /\ \A s, t \in DOMAIN tags :
       s # t /\ HasNdefMessage(s) => tags[s].message # tags[t].message
  /\ DOMAIN messages = {tags[t].message : t \in DOMAIN tags} \ {Null}
=============================================================================
