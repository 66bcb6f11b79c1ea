--------------------------- MODULE NfcAdapterProofs ---------------------------
(***************************************************************************)
(* Proofs about a sketch, its tag objects and the cards in front of the    *)
(* reader: for every set of cards, keys and messages, any number of lost   *)
(* calls and restarts, and every card placed or removed at any moment.     *)
(***************************************************************************)
EXTENDS NfcAdapterProperties, Type4TagProofs, FiniteSetTheorems

\* Tag objects and their messages.
ObjectsInv ==
  /\ DOMAIN tags \subseteq TagVars
  /\ tags \in [DOMAIN tags -> TagObject]
  /\ DOMAIN messages \subseteq MessagePointers
  /\ MessagesOwned

\* Cards and reader.  A card that answers is the one in the field, and it is
\* in a session exactly when the reader encrypts, once the sketch calls
\* operations; a card that was halted stays halted.
RadioInv ==
  /\ field \in Cards \cup {NoCard} /\ info \in Cards \cup {NoCard}
  /\ state \in {"away", "idle", "active", "authed", "halted"}
  /\ hidden \in BOOLEAN /\ crypto \in BOOLEAN
  /\ answering # NoCard => field = answering /\ state \in {"active", "authed"}
  /\ field = NoCard => state = "away"
  /\ state = "authed" => field \in Classic
  /\ hidden => field # NoCard
  /\ hidden /\ field \notin Type4Cards => answering = NoCard /\ state = "halted"
  /\ loop # "poll" /\ answering # NoCard =>
       state = IF crypto THEN "authed" ELSE "active"

\* The sketch calls operations for a card that was found, and the driver of
\* the adapter is the one for that card.
LoopInv ==
  /\ loop \in {"poll", "call", "driver", "type4"}
  /\ loop # "type4" => pc = "idle"
  /\ loop # "poll" => info \in Cards /\ PiccType[info] \in Supported
  /\ loop = "driver" => info \in Classic \cup Ultralight

\* What the cards hold, and the operation that runs.
SketchInv ==
  /\ store \in [Classic \cup Ultralight -> Contents]
  /\ key \in MifareKeys \cup {NullKey}
  /\ op \in Changing \cup {"none", "read", "look"}
  /\ arg \in Messages \cup {EmptyMessage, << >>}
  /\ op = "write" => arg \in Messages \cup {EmptyMessage}
  /\ result.is \in {"none", "message", "no message", "true", "false"}

\* The inductive invariant.
AdapterInv == Type4Inv /\ ObjectsInv /\ RadioInv /\ LoopInv /\ SketchInv
-----------------------------------------------------------------------------
(* Tag objects. *)

LEMMA Pointers ==
  /\ IsFiniteSet(MessagePointers)
  /\ Cardinality(MessagePointers) = MaxMessages
  /\ Null \notin MessagePointers
  /\ MaxMessages \in Nat
<1>1. MaxMessages \in Nat /\ 1 \in Int
  BY NfcTagAssumption
<1>2. /\ IsFiniteSet(1 .. MaxMessages)
      /\ Cardinality(1 .. MaxMessages) =
           IF 1 > MaxMessages THEN 0 ELSE MaxMessages - 1 + 1
  BY <1>1, FS_Interval
<1> QED  BY <1>1, <1>2 DEF MessagePointers, Null

\* Where there is room, a message that is created gets a pointer of its own.
LEMMA RoomIsFresh ==
  ASSUME DOMAIN messages \subseteq MessagePointers, MessageRoom(1)
  PROVE  /\ FreshMessage(Null) \in MessagePointers
         /\ FreshMessage(Null) \notin DOMAIN messages
<1>1. IsFiniteSet(DOMAIN messages) /\ Cardinality(DOMAIN messages) \in Nat
  BY Pointers, FS_Subset, FS_CardinalityType
<1>2. Cardinality(DOMAIN messages) # Cardinality(MessagePointers)
  BY <1>1, Pointers DEF MessageRoom
<1>3. \E p \in MessagePointers : p \notin DOMAIN messages
  BY <1>2
<1>4. DOMAIN messages \ {Null} = DOMAIN messages
  BY Pointers
<1> QED  BY <1>3, <1>4 DEF FreshMessage

\* The pointer of a message that is deleted first may be used again.
LEMMA DeletedIsFresh ==
  ASSUME NEW p \in MessagePointers, p \in DOMAIN messages
  PROVE  /\ FreshMessage(p) \in MessagePointers
         /\ FreshMessage(p) \notin DOMAIN messages \ {p}
  BY DEF FreshMessage

LEMMA NewTagStep ==
  ASSUME ObjectsInv, NEW t \in TagVars, NEW uid \in Cards \cup {NoCard},
         NEW type \in Supported \cup {"UNKNOWN"}, NEW f \in BOOLEAN,
         NewTag(t, uid, type, f)
  PROVE  ObjectsInv'
<1> DEFINE new == [uid |-> uid, type |-> type, formatted |-> f,
                   message |-> Null]
<1>1. /\ t \notin DOMAIN tags /\ messages' = messages
      /\ tags' = With(tags, t, new)
  BY DEF NewTag, TagAlive
<1>2. /\ DOMAIN tags' = DOMAIN tags \cup {t}
      /\ tags'[t] = new
      /\ \A s \in DOMAIN tags : tags'[s] = tags[s] /\ s # t
      /\ tags' = [s \in DOMAIN tags' |-> tags'[s]]
  BY <1>1 DEF With
<1>3. new \in TagObject /\ new.message = Null
  BY DEF TagObject
<1> HIDE DEF new
<1>4. tags' \in [DOMAIN tags' -> TagObject] /\ DOMAIN tags' \subseteq TagVars
  BY <1>2, <1>3 DEF ObjectsInv
<1>5. {tags'[s].message : s \in DOMAIN tags'} =
        {tags[s].message : s \in DOMAIN tags} \cup {Null}
  BY <1>2, <1>3
<1>6. \A r, s \in DOMAIN tags' :
        r # s /\ tags'[r].message # Null => tags'[r].message # tags'[s].message
  BY <1>2, <1>3 DEF ObjectsInv, MessagesOwned, HasNdefMessage
<1>7. MessagesOwned'
  BY <1>1, <1>5, <1>6 DEF ObjectsInv, MessagesOwned, HasNdefMessage
<1> QED  BY <1>1, <1>4, <1>7 DEF ObjectsInv

LEMMA NewTagWithStep ==
  ASSUME ObjectsInv, NEW t \in TagVars, NEW uid \in Cards \cup {NoCard},
         NEW type \in Supported, NEW m,
         NewTagWith(t, uid, type, m)
  PROVE  ObjectsInv'
<1> DEFINE p == FreshMessage(Null)
           new == [uid |-> uid, type |-> type, formatted |-> TRUE,
                   message |-> p]
<1>1. p \in MessagePointers /\ p \notin DOMAIN messages /\ p # Null
  BY RoomIsFresh, Pointers DEF ObjectsInv, NewTagWith
<1>2. /\ t \notin DOMAIN tags
      /\ tags' = With(tags, t, new) /\ messages' = With(messages, p, m)
  BY DEF NewTagWith, TagAlive
<1>3. new \in TagObject /\ new.message = p
  BY <1>1 DEF TagObject
<1> HIDE DEF new, p
<1>4. /\ DOMAIN tags' = DOMAIN tags \cup {t}
      /\ tags'[t] = new
      /\ \A s \in DOMAIN tags : tags'[s] = tags[s] /\ s # t
      /\ tags' = [s \in DOMAIN tags' |-> tags'[s]]
      /\ DOMAIN messages' = DOMAIN messages \cup {p}
  BY <1>2 DEF With
<1>5. tags' \in [DOMAIN tags' -> TagObject] /\ DOMAIN tags' \subseteq TagVars
  BY <1>3, <1>4 DEF ObjectsInv
<1>6. {tags'[s].message : s \in DOMAIN tags'} =
        {tags[s].message : s \in DOMAIN tags} \cup {p}
  BY <1>3, <1>4
<1>7. \A s \in DOMAIN tags : tags[s].message # Null =>
        tags[s].message # p
  BY <1>1 DEF ObjectsInv, MessagesOwned
<1>8. \A r, s \in DOMAIN tags' :
        r # s /\ tags'[r].message # Null => tags'[r].message # tags'[s].message
  BY <1>1, <1>3, <1>4, <1>7 DEF ObjectsInv, MessagesOwned, HasNdefMessage
<1>9. DOMAIN messages' = {tags'[s].message : s \in DOMAIN tags'} \ {Null}
  BY <1>1, <1>4, <1>6 DEF ObjectsInv, MessagesOwned
<1>10. MessagesOwned'
  BY <1>8, <1>9 DEF MessagesOwned, HasNdefMessage
<1> QED  BY <1>1, <1>4, <1>5, <1>10 DEF ObjectsInv

LEMMA DeleteTagStep ==
  ASSUME ObjectsInv, NEW t, DeleteTag(t)
  PROVE  ObjectsInv'
<1>1. /\ t \in DOMAIN tags
      /\ tags' = Without(tags, t)
      /\ messages' = Without(messages, tags[t].message)
  BY DEF DeleteTag, TagAlive
<1>2. /\ DOMAIN tags' = DOMAIN tags \ {t}
      /\ \A s \in DOMAIN tags' : tags'[s] = tags[s]
      /\ tags' = [s \in DOMAIN tags' |-> tags'[s]]
      /\ DOMAIN messages' = DOMAIN messages \ {tags[t].message}
  BY <1>1 DEF Without
<1>3. tags' \in [DOMAIN tags' -> TagObject] /\ DOMAIN tags' \subseteq TagVars
  BY <1>2 DEF ObjectsInv
<1>4. \A s \in DOMAIN tags : s # t /\ tags[s].message # Null =>
        tags[s].message # tags[t].message
  BY <1>1 DEF ObjectsInv, MessagesOwned, HasNdefMessage
<1>5. DOMAIN messages' = {tags'[s].message : s \in DOMAIN tags'} \ {Null}
  BY <1>1, <1>2, <1>4 DEF ObjectsInv, MessagesOwned
<1>6. \A r, s \in DOMAIN tags' :
        r # s /\ tags'[r].message # Null => tags'[r].message # tags'[s].message
  BY <1>2 DEF ObjectsInv, MessagesOwned, HasNdefMessage
<1>7. MessagesOwned'
  BY <1>5, <1>6 DEF MessagesOwned, HasNdefMessage
<1> QED  BY <1>2, <1>3, <1>7 DEF ObjectsInv

LEMMA AssignTagStep ==
  ASSUME ObjectsInv, NEW t, NEW rhs, AssignTag(t, rhs)
  PROVE  ObjectsInv'
<1> DEFINE q == tags[t].message  p == FreshMessage(q)
           new == [tags[t] EXCEPT !.message = p, !.uid = tags[rhs].uid]
<1>1. /\ t \in DOMAIN tags /\ rhs \in DOMAIN tags /\ t # rhs
      /\ MessageRoom(IF q # Null THEN 0 ELSE 1)
      /\ tags' = [tags EXCEPT ![t].message = p, ![t].uid = tags[rhs].uid]
      /\ messages' = With(Without(messages, q), p, Message(rhs))
  BY DEF AssignTag, TagAlive, HasNdefMessage
<1>2. /\ tags[t] \in TagObject /\ tags[rhs] \in TagObject
      /\ DOMAIN messages \subseteq MessagePointers
      /\ q # Null => q \in DOMAIN messages /\ q \in MessagePointers
  BY <1>1 DEF ObjectsInv, MessagesOwned
<1>3. p \in MessagePointers /\ p \notin DOMAIN messages \ {q} /\ p # Null
  <2>1. CASE q = Null
    BY <1>1, <1>2, <2>1, RoomIsFresh, Pointers
  <2>2. CASE q # Null
    BY <1>2, <2>2, DeletedIsFresh, Pointers
  <2> QED  BY <2>1, <2>2
<1>4. new \in TagObject /\ new.message = p
  BY <1>2, <1>3 DEF TagObject
<1>5. tags' = [tags EXCEPT ![t] = new]
  BY <1>1
<1> HIDE DEF new, p, q
<1>6. /\ DOMAIN tags' = DOMAIN tags /\ tags'[t] = new
      /\ \A s \in DOMAIN tags : s # t => tags'[s] = tags[s]
      /\ tags' \in [DOMAIN tags' -> TagObject]
  BY <1>1, <1>4, <1>5 DEF ObjectsInv
<1>7. DOMAIN messages' = (DOMAIN messages \ {q}) \cup {p}
  BY <1>1 DEF With, Without
<1>8. \A s \in DOMAIN tags : s # t /\ tags[s].message # Null =>
        tags[s].message # q /\ tags[s].message # p
  BY <1>1, <1>3 DEF ObjectsInv, MessagesOwned, HasNdefMessage, q
<1>9. DOMAIN messages' = {tags'[s].message : s \in DOMAIN tags'} \ {Null}
  <2>1. \A x \in DOMAIN messages \ {q} :
          \E s \in DOMAIN tags' : tags'[s].message = x /\ x # Null
    BY <1>6 DEF ObjectsInv, MessagesOwned, q
  <2>2. \A s \in DOMAIN tags' : tags'[s].message # Null =>
          tags'[s].message \in (DOMAIN messages \ {q}) \cup {p}
    BY <1>4, <1>6, <1>8 DEF ObjectsInv, MessagesOwned
  <2>3. \E s \in DOMAIN tags' : tags'[s].message = p
    BY <1>1, <1>4, <1>6
  <2> QED  BY <1>3, <1>7, <2>1, <2>2, <2>3
<1>10. \A r, s \in DOMAIN tags' :
         r # s /\ tags'[r].message # Null => tags'[r].message # tags'[s].message
  BY <1>4, <1>6, <1>8 DEF ObjectsInv, MessagesOwned, HasNdefMessage
<1>11. MessagesOwned'
  BY <1>9, <1>10 DEF MessagesOwned, HasNdefMessage
<1> QED  BY <1>2, <1>3, <1>6, <1>7, <1>11 DEF ObjectsInv
-----------------------------------------------------------------------------
(* Cards in front of the reader. *)

LEMMA NoCardIsNone ==
  /\ NoCard \notin Cards
  /\ Classic \subseteq Cards /\ Ultralight \subseteq Cards
  /\ Type4Cards \subseteq Cards
  /\ \A c \in Classic \cup Ultralight : c \notin Type4Cards
  BY AdapterAssumption DEF Classic, Ultralight

LEMMA FaultType ==
  ASSUME Type4Inv, Fault
  PROVE  faults' \in 0 .. MaxFaults
  BY SelectedAndFaults, Type4Assumption DEF Fault

LEMMA ObjectsKept ==
  ASSUME ObjectsInv, UNCHANGED tagVars
  PROVE  ObjectsInv'
<1>1. tags' = tags /\ messages' = messages
  BY DEF tagVars
<1> QED  BY <1>1 DEF ObjectsInv, MessagesOwned, HasNdefMessage

LEMMA SketchKept ==
  ASSUME SketchInv, UNCHANGED <<store, key, call>>
  PROVE  SketchInv'
  BY DEF SketchInv, call

LEMMA LoopKept ==
  ASSUME LoopInv, UNCHANGED <<pc, info, loop>>
  PROVE  LoopInv'
  BY DEF LoopInv

LEMMA PlaceStep ==
  ASSUME AdapterInv, NEW c \in Cards, Place(c)
  PROVE  AdapterInv'
<1>1. Type4Inv'
  BY StutterStep DEF AdapterInv, Place, vars, type4
<1>2. ObjectsInv' /\ SketchInv' /\ LoopInv'
  BY ObjectsKept, SketchKept, LoopKept DEF AdapterInv, Place, type4
<1>3. RadioInv'
  BY NoCardIsNone DEF AdapterInv, Place, RadioInv
<1> QED  BY <1>1, <1>2, <1>3 DEF AdapterInv

LEMMA RemoveStep ==
  ASSUME AdapterInv, Remove
  PROVE  AdapterInv'
<1>1. Type4Inv'
  BY FieldStep, SelectedAndFaults DEF AdapterInv, Remove, type4
<1>2. ObjectsInv' /\ SketchInv' /\ LoopInv'
  BY ObjectsKept, SketchKept, LoopKept DEF AdapterInv, Remove, type4
<1>3. RadioInv'
  BY NoCardIsNone DEF AdapterInv, Remove, RadioInv
<1> QED  BY <1>1, <1>2, <1>3 DEF AdapterInv

LEMMA RestartStep ==
  ASSUME AdapterInv, Restart
  PROVE  AdapterInv'
<1>1. Type4Inv'
  <2>1. /\ faults' \in 0 .. MaxFaults
        /\ pc' = "idle" /\ ret' = NoReturn /\ selected' = "none"
        /\ fileId' = 0 /\ maxSize' = 0 /\ fileSize' = 0 /\ pos' = 0
        /\ out' = << >>
    BY FaultType DEF AdapterInv, Restart, Deselected
  <2>2. Type4TypeOK'
    BY <2>1, EmptySeq DEF Type4TypeOK, NoReturn
  <2>3. ReadsMeetTheirFile' /\ ReadProgress' /\ PiecesInOrder' /\ ReadsAllButTwo'
    BY <2>1 DEF NoReturn, ReadsMeetTheirFile, ReadProgress, PiecesInOrder,
                ReadsAllButTwo
  <2> QED  BY <2>2, <2>3 DEF Type4Inv
<1>2. ObjectsInv'
  <2>1. /\ tags' = [t \in {"last"} |-> Nobody] /\ messages' = << >>
    BY DEF Restart
  <2>2. Nobody \in TagObject /\ Nobody.message = Null
    BY DEF Nobody, TagObject
  <2>3. DOMAIN messages' = {}
    BY <2>1
  <2> QED  BY <2>1, <2>2, <2>3, AdapterAssumption
           DEF ObjectsInv, MessagesOwned, HasNdefMessage
<1>3. SketchInv'
  BY DEF AdapterInv, Restart, SketchInv, NoResult
<1>4. LoopInv'
  BY DEF Restart, LoopInv
<1>5. RadioInv'
  BY NoCardIsNone DEF AdapterInv, Restart, Deselected, RadioInv
<1> QED  BY <1>1, <1>2, <1>3, <1>4, <1>5 DEF AdapterInv

\* A card that was halted is not idle, so the request does not find it.
LEMMA TagPresentStep ==
  ASSUME AdapterInv, TagPresent
  PROVE  AdapterInv'
<1>1. /\ loop = "poll" /\ pc = "idle" /\ crypto' = FALSE
      /\ UNCHANGED <<type4, tagVars, field, hidden, store, key, call>>
  BY DEF AdapterInv, LoopInv, TagPresent, CryptoAtRequest
<1>2. ObjectsInv' /\ SketchInv'
  BY <1>1, ObjectsKept, SketchKept DEF AdapterInv
<1>3. faults' \in 0 .. MaxFaults /\ selected' \in {"none", "app", "cc", "ndef"}
  BY SelectedAndFaults, FaultType DEF AdapterInv, TagPresent, Deselected
<1>4. Type4Inv'
  BY <1>1, <1>3, FieldStep DEF AdapterInv, type4
<1>5. CASE /\ state = "idle" /\ state' = "active"
           /\ answering' = field /\ info' = field
           /\ loop' = IF PiccType[field] \in Supported THEN "call" ELSE "poll"
  <2>1. field \in Cards
    BY <1>5 DEF AdapterInv, RadioInv
  <2>2. RadioInv'
    BY <1>1, <1>5, <2>1 DEF AdapterInv, RadioInv
  <2>3. LoopInv'
    BY <1>1, <1>5, <2>1 DEF AdapterInv, LoopInv, type4
  <2> QED  BY <1>2, <1>4, <2>2, <2>3 DEF AdapterInv
<1>6. CASE /\ state = "idle" /\ state' \in {"idle", "active"}
           /\ UNCHANGED <<answering, info, loop>>
  <2>1. RadioInv'
    BY <1>1, <1>6 DEF AdapterInv, RadioInv
  <2>2. LoopInv'
    BY <1>1, <1>6, LoopKept DEF AdapterInv, type4
  <2> QED  BY <1>2, <1>4, <2>1, <2>2 DEF AdapterInv
<1>7. CASE /\ \/ state \in {"active", "authed"} /\ Deselected("idle")
              \/ UNCHANGED <<state, answering>>
           /\ UNCHANGED <<info, loop>>
  <2>1. RadioInv'
    BY <1>1, <1>7 DEF AdapterInv, RadioInv, Deselected
  <2>2. LoopInv'
    BY <1>1, <1>7, LoopKept DEF AdapterInv, type4
  <2> QED  BY <1>2, <1>4, <2>1, <2>2 DEF AdapterInv
<1> QED  BY <1>5, <1>6, <1>7 DEF TagPresent, Answers

\* The adapter halts a card in the session the card is in.
LEMMA HaltTagStep ==
  ASSUME AdapterInv, HaltTag
  PROVE  AdapterInv'
<1>1. /\ loop = "call" /\ pc = "idle" /\ crypto' = FALSE
      /\ UNCHANGED <<type4, tagVars, field, info, store, key, loop, call>>
  BY DEF AdapterInv, LoopInv, HaltTag
<1>2. ObjectsInv' /\ SketchInv' /\ LoopInv'
  BY <1>1, ObjectsKept, SketchKept, LoopKept DEF AdapterInv, type4
<1>3. faults' \in 0 .. MaxFaults /\ selected' \in {"none", "app", "cc", "ndef"}
  BY SelectedAndFaults, FaultType DEF AdapterInv, HaltTag, Deselected
<1>4. Type4Inv'
  BY <1>1, <1>3, FieldStep DEF AdapterInv, type4
<1>5. CASE /\ answering # NoCard
           /\ Deselected(IF HaltUnderstood THEN "halted" ELSE "idle")
           /\ hidden' = TRUE
  <2>1. HaltUnderstood
    BY <1>1, <1>5 DEF AdapterInv, RadioInv, HaltUnderstood, CryptoAtHalt
  <2>2. state' = "halted" /\ answering' = NoCard
    BY <1>5, <2>1 DEF Deselected
  <2>3. RadioInv'
    BY <1>1, <1>5, <2>2, NoCardIsNone DEF AdapterInv, RadioInv
  <2> QED  BY <1>2, <1>4, <2>3 DEF AdapterInv
<1>6. CASE answering \in Type4Cards /\ UNCHANGED <<state, answering, hidden>>
  <2>1. answering # NoCard /\ answering \notin Classic
    BY <1>6, NoCardIsNone
  <2>2. RadioInv'
    BY <1>1, <1>6, <2>1 DEF AdapterInv, RadioInv
  <2> QED  BY <1>2, <1>4, <2>2 DEF AdapterInv
<1>7. CASE /\ answering # NoCard
           /\ IF state = "authed" THEN Deselected(state)
                                  ELSE UNCHANGED <<state, answering, selected>>
           /\ UNCHANGED hidden
  <2>1. RadioInv'
    BY <1>1, <1>7 DEF AdapterInv, RadioInv, Deselected
  <2> QED  BY <1>2, <1>4, <2>1 DEF AdapterInv
<1>8. CASE answering = NoCard /\ UNCHANGED <<state, answering, hidden>>
  <2>1. RadioInv'
    BY <1>1, <1>8 DEF AdapterInv, RadioInv
  <2> QED  BY <1>2, <1>4, <2>1 DEF AdapterInv
<1> QED  BY <1>5, <1>6, <1>7, <1>8 DEF HaltTag

LEMMA SetMifareKeyStep ==
  ASSUME AdapterInv, NEW k \in MifareKeys, SetMifareKey(k)
  PROVE  AdapterInv'
<1>1. UNCHANGED <<radio, faults, type4, tagVars, loop>>
  BY DEF SetMifareKey
<1>2. Type4Inv' /\ ObjectsInv' /\ LoopInv'
  BY <1>1, StutterStep, ObjectsKept, LoopKept
  DEF AdapterInv, radio, type4, vars
<1>3. RadioInv'
  BY <1>1 DEF AdapterInv, RadioInv, radio
<1>4. SketchInv'
  BY DEF AdapterInv, SketchInv, SetMifareKey, call
<1> QED  BY <1>2, <1>3, <1>4 DEF AdapterInv
-----------------------------------------------------------------------------
(* The calls of the sketch. *)

\* A call, or a return to the sketch, that touches neither the card nor the
\* reader.
LEMMA RadioKept ==
  ASSUME RadioInv, UNCHANGED radio, loop = "poll" => loop' = "poll"
  PROVE  RadioInv'
  BY DEF RadioInv, radio

LEMMA CallDriverStep ==
  ASSUME AdapterInv, loop = "call", info \in Classic \cup Ultralight,
         NEW o \in {"read", "look", "write", "format", "clean"},
         NEW m \in Messages \cup {EmptyMessage, << >>},
         o = "write" => m \in Messages \cup {EmptyMessage},
         CallDriver(o, m)
  PROVE  AdapterInv'
<1>1. /\ loop' = "driver" /\ op' = o /\ arg' = m /\ result' = NoResult
      /\ UNCHANGED <<radio, faults, type4, tagVars, store, key>>
  BY DEF CallDriver
<1>2. Type4Inv' /\ ObjectsInv' /\ RadioInv'
  BY <1>1, StutterStep, ObjectsKept, RadioKept
  DEF AdapterInv, radio, type4, vars
<1>3. LoopInv'
  BY <1>1 DEF AdapterInv, LoopInv, radio, type4
<1>4. SketchInv'
  BY <1>1 DEF AdapterInv, SketchInv, NoResult, Changing
<1> QED  BY <1>2, <1>3, <1>4 DEF AdapterInv

LEMMA AtOnceStep ==
  ASSUME AdapterInv, NEW answer \in {"true", "false"}, AtOnce(answer)
  PROVE  AdapterInv'
<1>1. /\ result' = Says(answer)
      /\ UNCHANGED <<radio, faults, type4, tagVars, store, key, loop, op, arg>>
  BY DEF AtOnce
<1>2. Type4Inv' /\ ObjectsInv' /\ RadioInv' /\ LoopInv'
  BY <1>1, StutterStep, ObjectsKept, RadioKept, LoopKept
  DEF AdapterInv, radio, type4, vars
<1>3. SketchInv'
  BY <1>1 DEF AdapterInv, SketchInv, Says
<1> QED  BY <1>2, <1>3 DEF AdapterInv

LEMMA WriteStep ==
  ASSUME AdapterInv, NEW m \in Messages \cup {EmptyMessage}, Write(m)
  PROVE  AdapterInv'
<1>1. loop = "call"
  BY DEF Write
<1>2. CASE info \in Classic \cup Ultralight /\ CallDriver("write", m)
  BY <1>1, <1>2, CallDriverStep
<1>3. CASE AtOnce("false")
  BY <1>3, AtOnceStep
<1> QED  BY <1>2, <1>3 DEF Write

LEMMA FormatStep ==
  ASSUME AdapterInv, Format
  PROVE  AdapterInv'
<1>1. loop = "call"
  BY DEF Format
<1>2. CASE info \in Classic /\ CallDriver("format", << >>)
  BY <1>1, <1>2, CallDriverStep
<1>3. CASE AtOnce("true")
  BY <1>3, AtOnceStep
<1>4. CASE AtOnce("false")
  BY <1>4, AtOnceStep
<1> QED  BY <1>2, <1>3, <1>4 DEF Format

LEMMA CleanStep ==
  ASSUME AdapterInv, Clean
  PROVE  AdapterInv'
<1>1. loop = "call"
  BY DEF Clean
<1>2. CASE info \in Classic \cup Ultralight /\ CallDriver("clean", << >>)
  BY <1>1, <1>2, CallDriverStep
<1>3. CASE AtOnce("false")
  BY <1>3, AtOnceStep
<1> QED  BY <1>2, <1>3 DEF Clean

\* The driver of Type 4 tags starts, or a tag without a driver is returned.
LEMMA ReadCallStep ==
  ASSUME AdapterInv, Read
  PROVE  AdapterInv'
<1>1. loop = "call" /\ info \in Cards /\ PiccType[info] \in Supported
  BY DEF Read, AdapterInv, LoopInv
<1>2. CASE info \in Classic /\ CallDriver("read", << >>)
  BY <1>1, <1>2, CallDriverStep
<1>3. CASE info \in Ultralight /\ CallDriver("look", << >>)
  BY <1>1, <1>3, CallDriverStep
<1>4. CASE /\ StartRead /\ loop' = "type4"
           /\ UNCHANGED <<answering, tagVars, field, state, hidden, crypto,
                          info, store, key, call>>
  <2>1. Type4Inv' /\ ObjectsInv' /\ SketchInv'
    BY <1>4, StartStep, ObjectsKept, SketchKept DEF AdapterInv
  <2>2. RadioInv'
    BY <1>1, <1>4 DEF AdapterInv, RadioInv
  <2>3. LoopInv'
    BY <1>1, <1>4 DEF LoopInv
  <2> QED  BY <2>1, <2>2, <2>3 DEF AdapterInv
<1>5. CASE /\ NewTag("tag", info, PiccType[info], FALSE)
           /\ UNCHANGED <<radio, faults, type4, store, key, loop, call>>
  <2>1. Type4Inv' /\ RadioInv' /\ LoopInv' /\ SketchInv'
    BY <1>5, StutterStep, RadioKept, LoopKept, SketchKept
    DEF AdapterInv, radio, type4, vars
  <2>2. ObjectsInv'
    BY <1>1, <1>5, NewTagStep, AdapterAssumption DEF AdapterInv
  <2> QED  BY <2>1, <2>2 DEF AdapterInv
<1> QED  BY <1>2, <1>3, <1>4, <1>5 DEF Read
-----------------------------------------------------------------------------
(* The drivers. *)

LEMMA DriverWorksStep ==
  ASSUME AdapterInv, DriverWorks
  PROVE  AdapterInv'
<1>1. /\ loop = "driver" /\ answering = info
      /\ IF info \in Classic THEN state' = "authed" /\ crypto' = TRUE
                              ELSE UNCHANGED <<state, crypto>>
      /\ store' = IF op \in Changing THEN [store EXCEPT ![info] = Torn] ELSE store
      /\ UNCHANGED <<field, hidden, info, answering, selected, faults, type4,
                     tagVars, key, loop, call>>
  BY DEF DriverWorks, Reaches
<1>2. info # NoCard
  BY <1>1, NoCardIsNone DEF AdapterInv, LoopInv
<1>3. Type4Inv' /\ ObjectsInv' /\ LoopInv'
  BY <1>1, StutterStep, ObjectsKept, LoopKept DEF AdapterInv, type4, vars
<1>4. RadioInv'
  BY <1>1, <1>2, NoCardIsNone DEF AdapterInv, RadioInv
<1>5. SketchInv'
  <2>1. store' \in [Classic \cup Ultralight -> Contents]
    BY <1>1 DEF AdapterInv, SketchInv, Contents
  <2> QED  BY <1>1, <2>1 DEF AdapterInv, SketchInv, call
<1> QED  BY <1>3, <1>4, <1>5 DEF AdapterInv

\* What a driver may have done when it returns: the card is as it was or has
\* stopped listening, and a tag object may be new.
LEMMA DriverReturnsStep ==
  ASSUME AdapterInv, NEW r, DriverReturns(r),
         r.is \in {"message", "no message", "true", "false"},
         UNCHANGED crypto,
         \/ UNCHANGED <<state, answering, selected>>
         \/ Reaches /\ Deselected("idle"),
         faults' \in 0 .. MaxFaults,
         ObjectsInv',
         store' \in [Classic \cup Ultralight -> Contents]
  PROVE  AdapterInv'
<1>1. /\ loop = "driver" /\ loop' = "call" /\ op' = "none" /\ arg' = << >>
      /\ result' = r /\ UNCHANGED <<field, hidden, info, type4, key>>
  BY DEF DriverReturns
<1>2. info \in Cards /\ PiccType[info] \in Supported /\ info # NoCard
      /\ pc = "idle"
  BY <1>1, NoCardIsNone DEF AdapterInv, LoopInv
<1>3. selected' \in {"none", "app", "cc", "ndef"}
  BY SelectedAndFaults DEF AdapterInv, Deselected
<1>4. Type4Inv'
  BY <1>1, <1>2, <1>3, FieldStep DEF AdapterInv, type4
<1>5. RadioInv'
  BY <1>1, <1>2 DEF AdapterInv, RadioInv, Deselected, Reaches
<1>6. LoopInv'
  BY <1>1, <1>2 DEF LoopInv, type4
<1>7. SketchInv'
  BY <1>1 DEF AdapterInv, SketchInv
<1> QED  BY <1>4, <1>5, <1>6, <1>7 DEF AdapterInv

\* What every return starts from.
LEMMA DriverFacts ==
  ASSUME AdapterInv, NEW r, DriverReturns(r)
  PROVE  /\ info \in Cards
         /\ faults \in 0 .. MaxFaults
         /\ store \in [Classic \cup Ultralight -> Contents]
         /\ "tag" \in TagVars
         /\ {"MIFARE_1K", "MIFARE_UL"} \subseteq Supported
  BY SelectedAndFaults, AdapterAssumption
  DEF AdapterInv, LoopInv, SketchInv, DriverReturns, Supported

LEMMA ReadSucceedsStep ==
  ASSUME AdapterInv, ReadSucceeds
  PROVE  AdapterInv'
<1>1. PICK m :
        /\ DriverReturns([is |-> "message", msg |-> m])
        /\ NewTagWith("tag", info,
                      IF op = "read" THEN "MIFARE_1K" ELSE "MIFARE_UL", m)
  BY DEF ReadSucceeds
<1>2. UNCHANGED <<state, crypto, answering, selected, faults, store>>
  BY DEF ReadSucceeds
<1>3. ObjectsInv'
  BY <1>1, DriverFacts, NewTagWithStep DEF AdapterInv
<1> QED  BY <1>1, <1>2, <1>3, DriverFacts, DriverReturnsStep

LEMMA ReadFailsStep ==
  ASSUME AdapterInv, ReadFails
  PROVE  AdapterInv'
<1>1. PICK t \in {"MIFARE_1K", "MIFARE_UL", "UNKNOWN"} :
        NewTag("tag", info, t, FALSE)
  BY DEF ReadFails
<1>2. /\ DriverReturns(Says("no message"))
      /\ UNCHANGED <<crypto, faults, store>>
      /\ \/ UNCHANGED <<state, answering, selected>>
         \/ Reaches /\ Deselected("idle")
  BY DEF ReadFails
<1>3. ObjectsInv'
  BY <1>1, <1>2, DriverFacts, NewTagStep DEF AdapterInv
<1>4. Says("no message").is = "no message"
  BY DEF Says
<1> QED  BY <1>2, <1>3, <1>4, DriverFacts, DriverReturnsStep

LEMMA EmptyInventedStep ==
  ASSUME AdapterInv, EmptyInvented
  PROVE  AdapterInv'
<1>1. /\ DriverReturns([is |-> "message", msg |-> EmptyMessage])
      /\ NewTagWith("tag", info, "MIFARE_UL", EmptyMessage)
      /\ UNCHANGED <<state, crypto, answering, selected, store>>
      /\ Fault \/ UNCHANGED faults
  BY DEF EmptyInvented
<1>2. ObjectsInv'
  BY <1>1, DriverFacts, NewTagWithStep DEF AdapterInv
<1>3. faults' \in 0 .. MaxFaults
  BY <1>1, DriverFacts, FaultType DEF AdapterInv
<1> QED  BY <1>1, <1>2, <1>3, DriverFacts, DriverReturnsStep

LEMMA ChangeSucceedsStep ==
  ASSUME AdapterInv, ChangeSucceeds
  PROVE  AdapterInv'
<1>1. /\ DriverReturns(Says("true"))
      /\ UNCHANGED <<tagVars, state, crypto, answering, selected, faults>>
  BY DEF ChangeSucceeds
<1>2. PICK content \in CASE op = "write" -> {arg}
                         [] op = "format" -> {EmptyMessage}
                         [] OTHER -> {NoMessage} :
        store' = [store EXCEPT ![info] = content]
  BY DEF ChangeSucceeds
<1>3. content \in Contents
  BY <1>2 DEF AdapterInv, SketchInv, Contents
<1>4. store' \in [Classic \cup Ultralight -> Contents]
  BY <1>1, <1>2, <1>3, DriverFacts
<1>5. ObjectsInv'
  BY <1>1, ObjectsKept DEF AdapterInv
<1>6. Says("true").is = "true"
  BY DEF Says
<1> QED  BY <1>1, <1>4, <1>5, <1>6, DriverFacts, DriverReturnsStep

LEMMA ChangeFailsStep ==
  ASSUME AdapterInv, ChangeFails
  PROVE  AdapterInv'
<1>1. PICK b \in {"true", "false"} : DriverReturns(Says(b))
  BY DEF ChangeFails
<1>2. /\ UNCHANGED <<tagVars, crypto, faults, store>>
      /\ \/ UNCHANGED <<state, answering, selected>>
         \/ Reaches /\ Deselected("idle")
  BY DEF ChangeFails
<1>3. ObjectsInv'
  BY <1>2, ObjectsKept DEF AdapterInv
<1>4. Says(b).is \in {"true", "false"}
  BY <1>1 DEF Says
<1> QED  BY <1>1, <1>2, <1>3, <1>4, DriverFacts, DriverReturnsStep

LEMMA DriverReturnStep ==
  ASSUME AdapterInv, DriverReturn
  PROVE  AdapterInv'
  BY ReadSucceedsStep, ReadFailsStep, EmptyInventedStep, ChangeSucceedsStep,
     ChangeFailsStep
  DEF DriverReturn

LEMMA Type4CommandStep ==
  ASSUME AdapterInv, Type4Command
  PROVE  AdapterInv'
<1>1. /\ loop = "type4" /\ Command
      /\ UNCHANGED <<answering, tagVars, field, state, hidden, crypto, info, store,
                     key, loop, call>>
  BY DEF Type4Command
<1>2. Type4Inv' /\ ObjectsInv' /\ SketchInv'
  BY <1>1, CommandStep, ObjectsKept, SketchKept DEF AdapterInv
<1>3. RadioInv' /\ LoopInv'
  BY <1>1 DEF AdapterInv, RadioInv, LoopInv
<1> QED  BY <1>2, <1>3 DEF AdapterInv

LEMMA Type4ReturnsStep ==
  ASSUME AdapterInv, Type4Returns
  PROVE  AdapterInv'
<1>1. /\ loop = "type4" /\ pc = "idle" /\ loop' = "call" /\ ret' = NoReturn
      /\ UNCHANGED <<radio, faults, pc, locals, store, key, call>>
  BY DEF Type4Returns
<1>2. info \in Cards /\ PiccType[info] \in Supported /\ "tag" \in TagVars
      /\ "ISO_14443_4" \in Supported
  BY <1>1, AdapterAssumption DEF AdapterInv, LoopInv, Supported
<1>3. Type4Inv'
  BY <1>1, FieldStep, SelectedAndFaults DEF AdapterInv, radio
<1>4. ObjectsInv'
  BY <1>2, NewTagStep, NewTagWithStep DEF AdapterInv, Type4Returns
<1>5. RadioInv' /\ SketchInv'
  BY <1>1, RadioKept, SketchKept DEF AdapterInv
<1>6. LoopInv'
  BY <1>1, <1>2 DEF LoopInv, radio
<1> QED  BY <1>3, <1>4, <1>5, <1>6 DEF AdapterInv
-----------------------------------------------------------------------------
(* Every step of the sketch, the adapter and the cards. *)

\* The sketch handles its tag objects.
LEMMA TagObjectStep ==
  ASSUME AdapterInv, Keep \/ Drop
  PROVE  AdapterInv'
<1>1. UNCHANGED <<radio, faults, type4, store, key, loop, call>>
  BY DEF Keep, Drop
<1>2. Type4Inv' /\ RadioInv' /\ LoopInv' /\ SketchInv'
  BY <1>1, StutterStep, RadioKept, LoopKept, SketchKept
  DEF AdapterInv, radio, type4, vars
<1>3. ObjectsInv'
  BY AssignTagStep, DeleteTagStep DEF AdapterInv, Keep, Drop
<1> QED  BY <1>2, <1>3 DEF AdapterInv

LEMMA EndLoopStep ==
  ASSUME AdapterInv, EndLoop
  PROVE  AdapterInv'
<1>1. /\ loop = "call" /\ loop' = "poll" /\ result' = NoResult
      /\ UNCHANGED <<radio, faults, type4, store, key, op, arg>>
  BY DEF EndLoop
<1>2. Type4Inv' /\ RadioInv'
  BY <1>1, StutterStep, RadioKept DEF AdapterInv, radio, type4, vars
<1>3. ObjectsInv'
  BY DeleteTagStep, ObjectsKept DEF AdapterInv, EndLoop
<1>4. LoopInv' /\ SketchInv'
  BY <1>1 DEF AdapterInv, LoopInv, SketchInv, NoResult, type4
<1> QED  BY <1>2, <1>3, <1>4 DEF AdapterInv

LEMMA AdapterStutterStep ==
  ASSUME AdapterInv, UNCHANGED adapterVars
  PROVE  AdapterInv'
<1>1. UNCHANGED <<vars, tagVars, field, state, hidden, crypto, info, store, key,
                  loop, call>>
  BY DEF adapterVars
<1>2. Type4Inv' /\ ObjectsInv' /\ SketchInv' /\ LoopInv'
  BY <1>1, StutterStep, ObjectsKept, SketchKept, LoopKept DEF AdapterInv, vars
<1>3. RadioInv'
  BY <1>1, RadioKept DEF AdapterInv, vars, radio
<1> QED  BY <1>2, <1>3 DEF AdapterInv

LEMMA AdapterNextStep ==
  ASSUME AdapterInv, [AdapterNext]_adapterVars
  PROVE  AdapterInv'
<1>1. CASE Environment
  BY <1>1, PlaceStep, RemoveStep, RestartStep DEF Environment
<1>2. CASE TagPresent \/ HaltTag \/ (\E k \in MifareKeys : SetMifareKey(k))
  BY <1>2, TagPresentStep, HaltTagStep, SetMifareKeyStep
<1>3. CASE Read \/ (\E m \in Messages : Write(m)) \/ Erase \/ Format \/ Clean
  BY <1>3, ReadCallStep, WriteStep, FormatStep, CleanStep DEF Erase
<1>4. CASE DriverWorks \/ DriverReturn \/ Type4Command \/ Type4Returns
  BY <1>4, DriverWorksStep, DriverReturnStep, Type4CommandStep, Type4ReturnsStep
<1>5. CASE Keep \/ Drop \/ EndLoop
  BY <1>5, TagObjectStep, EndLoopStep
<1>6. CASE UNCHANGED adapterVars
  BY <1>6, AdapterStutterStep
<1> QED  BY <1>1, <1>2, <1>3, <1>4, <1>5, <1>6 DEF AdapterNext

LEMMA AdapterInitInvariant ==
  ASSUME AdapterInit
  PROVE  AdapterInv
<1>1. Type4Inv
  BY InitInvariant DEF AdapterInit
<1>2. ObjectsInv
  <2>1. Nobody \in TagObject /\ Nobody.message = Null
    BY DEF Nobody, TagObject
  <2>2. /\ tags = [t \in {"last"} |-> Nobody] /\ messages = << >>
        /\ DOMAIN messages = {}
    BY DEF AdapterInit
  <2> QED  BY <2>1, <2>2, AdapterAssumption
           DEF ObjectsInv, MessagesOwned, HasNdefMessage
<1>3. RadioInv
  BY NoCardIsNone DEF AdapterInit, RadioInv
<1>4. LoopInv
  BY DEF AdapterInit, Init, LoopInv
<1>5. SketchInv
  <2>1. InitialStore \in [Classic \cup Ultralight -> Contents]
    BY AdapterAssumption DEF Contents
  <2> QED  BY <2>1 DEF AdapterInit, SketchInv, NoResult
<1> QED  BY <1>1, <1>2, <1>3, <1>4, <1>5 DEF AdapterInv

-----------------------------------------------------------------------------
(* Where the messages of tag objects come from. *)

\* An operation works on the card it was called for, or on none, and what a
\* read of a Type 4 tag is about to return was read from that card.
SourceInv ==
  /\ loop # "poll" /\ answering # NoCard => answering = info
  /\ loop = "driver" /\ op = "read" => info \in Classic
  /\ loop = "driver" /\ op = "look" => info \in Ultralight
  /\ loop = "type4" => info \in Type4Cards
  /\ loop = "type4" /\ ret.status = "ok" => ReadOf(info, ret.msg)

ObjectsTrue == \A t \in DOMAIN tags' : tags'[t].message # Null => TellsTruth(t)

LEMMA PoolsApart ==
  ASSUME NEW c \in Cards
  PROVE  /\ ~(c \in Classic /\ c \in Ultralight)
         /\ ~(c \in Classic /\ c \in Type4Cards)
         /\ ~(c \in Ultralight /\ c \in Type4Cards)
  BY AdapterAssumption DEF Classic, Ultralight

\* An object that stays as it is tells what it told before.
LEMMA KeptTruth ==
  ASSUME ObjectsInv, NEW t \in DOMAIN tags, t \in DOMAIN tags',
         tags'[t] = tags[t], tags[t].message # Null,
         messages'[tags[t].message] = messages[tags[t].message]
  PROVE  TellsTruth(t)
  BY DEF TellsTruth, HasNdefMessage, Message

LEMMA ObjectsKeptTruth ==
  ASSUME ObjectsInv, UNCHANGED tagVars
  PROVE  ObjectsTrue
<1>1. tags' = tags /\ messages' = messages
  BY DEF tagVars
<1> QED  BY <1>1, KeptTruth DEF ObjectsTrue

LEMMA NewTagTruth ==
  ASSUME ObjectsInv, NEW t, NEW uid, NEW type, NEW f, NewTag(t, uid, type, f)
  PROVE  ObjectsTrue
<1>1. /\ t \notin DOMAIN tags /\ messages' = messages
      /\ DOMAIN tags' = DOMAIN tags \cup {t} /\ tags'[t].message = Null
      /\ \A s \in DOMAIN tags : tags'[s] = tags[s]
  BY DEF NewTag, TagAlive, With
<1> QED  BY <1>1, KeptTruth DEF ObjectsTrue

LEMMA NewTagWithTruth ==
  ASSUME ObjectsInv, NEW t, NEW uid, NEW type, NEW m, Delivers(uid, m),
         NewTagWith(t, uid, type, m)
  PROVE  ObjectsTrue
<1> DEFINE p == FreshMessage(Null)
           new == [uid |-> uid, type |-> type, formatted |-> TRUE,
                   message |-> p]
<1>1. p \notin DOMAIN messages
  BY RoomIsFresh DEF ObjectsInv, NewTagWith
<1>2. /\ t \notin DOMAIN tags
      /\ tags' = With(tags, t, new) /\ messages' = With(messages, p, m)
  BY DEF NewTagWith, TagAlive
<1>3. new.message = p /\ new.uid = uid
  OBVIOUS
<1> HIDE DEF new, p
<1>4. /\ DOMAIN tags' = DOMAIN tags \cup {t} /\ tags'[t] = new
      /\ \A s \in DOMAIN tags : tags'[s] = tags[s]
      /\ messages'[p] = m
      /\ \A q \in DOMAIN messages : messages'[q] = messages[q]
  BY <1>1, <1>2 DEF With
<1>5. TellsTruth(t)
  BY <1>3, <1>4 DEF TellsTruth
<1>6. \A s \in DOMAIN tags : tags[s].message # Null =>
        tags[s].message \in DOMAIN messages
  BY DEF ObjectsInv, MessagesOwned
<1> QED  BY <1>4, <1>5, <1>6, KeptTruth DEF ObjectsTrue

LEMMA DeleteTagTruth ==
  ASSUME ObjectsInv, NEW t, DeleteTag(t)
  PROVE  ObjectsTrue
<1>1. /\ t \in DOMAIN tags /\ DOMAIN tags' = DOMAIN tags \ {t}
      /\ \A s \in DOMAIN tags' : tags'[s] = tags[s]
      /\ \A q \in DOMAIN messages \ {tags[t].message} :
           messages'[q] = messages[q]
  BY DEF DeleteTag, TagAlive, Without
<1>2. \A s \in DOMAIN tags' : tags[s].message # Null =>
        tags[s].message \in DOMAIN messages \ {tags[t].message}
  BY <1>1 DEF ObjectsInv, MessagesOwned, HasNdefMessage
<1> QED  BY <1>1, <1>2, KeptTruth DEF ObjectsTrue

LEMMA AssignTagTruth ==
  ASSUME ObjectsInv, NEW t, NEW rhs, AssignTag(t, rhs)
  PROVE  ObjectsTrue
<1> DEFINE q == tags[t].message  p == FreshMessage(q)
           new == [tags[t] EXCEPT !.message = p, !.uid = tags[rhs].uid]
<1>1. /\ t \in DOMAIN tags /\ rhs \in DOMAIN tags /\ t # rhs
      /\ MessageRoom(IF q # Null THEN 0 ELSE 1) /\ HasNdefMessage(rhs)
      /\ tags' = [tags EXCEPT ![t].message = p, ![t].uid = tags[rhs].uid]
      /\ messages' = With(Without(messages, q), p, Message(rhs))
  BY DEF AssignTag, TagAlive, HasNdefMessage
<1>2. /\ tags[t] \in TagObject
      /\ DOMAIN messages \subseteq MessagePointers
      /\ q # Null => q \in DOMAIN messages /\ q \in MessagePointers
  BY <1>1 DEF ObjectsInv, MessagesOwned
<1>3. p \notin DOMAIN messages \ {q}
  <2>1. CASE q = Null
    BY <1>1, <1>2, <2>1, RoomIsFresh, Pointers
  <2>2. CASE q # Null
    BY <1>2, <2>2, DeletedIsFresh, Pointers
  <2> QED  BY <2>1, <2>2
<1>4. new.message = p /\ new.uid = tags[rhs].uid
  BY <1>2 DEF TagObject
<1>5. tags' = [tags EXCEPT ![t] = new]
  BY <1>1
<1> HIDE DEF new, p, q
<1>6. /\ DOMAIN tags' = DOMAIN tags /\ tags'[t] = new
      /\ \A s \in DOMAIN tags : s # t => tags'[s] = tags[s]
      /\ messages'[p] = Message(rhs)
      /\ \A x \in DOMAIN messages : x # q /\ x # p => messages'[x] = messages[x]
  BY <1>1, <1>5 DEF With, Without
<1>7. TellsTruth(t)
  BY <1>1, <1>4, <1>6 DEF TellsTruth
<1>8. \A s \in DOMAIN tags : s # t /\ tags[s].message # Null =>
        /\ tags[s].message \in DOMAIN messages
        /\ tags[s].message # q /\ tags[s].message # p
  BY <1>1, <1>3 DEF ObjectsInv, MessagesOwned, HasNdefMessage, q
<1> QED  BY <1>6, <1>7, <1>8, KeptTruth DEF ObjectsTrue
-----------------------------------------------------------------------------
(* Every step once more: the source of a message. *)

\* The sketch is back, for the card it was called for.
LEMMA SourceCall ==
  ASSUME loop' \in {"poll", "call"},
         loop' = "call" /\ answering' # NoCard => answering' = info'
  PROVE  SourceInv'
  BY DEF SourceInv

\* The operation stays, and so does its card or none is left.
LEMMA SourceKept ==
  ASSUME SourceInv, UNCHANGED <<loop, op, info, ret>>,
         answering' = answering \/ answering' = NoCard
  PROVE  SourceInv'
  BY DEF SourceInv, ReadOf

LEMMA CallDriverSource ==
  ASSUME SourceInv, loop = "call", NEW o, NEW m, CallDriver(o, m),
         o = "read" => info \in Classic, o = "look" => info \in Ultralight
  PROVE  SourceInv'
<1>1. loop' = "driver" /\ op' = o /\ UNCHANGED <<info, answering>>
  BY DEF CallDriver, radio
<1> QED  BY <1>1 DEF SourceInv

LEMMA AtOnceSource ==
  ASSUME SourceInv, NEW answer, AtOnce(answer)
  PROVE  SourceInv'
<1>1. UNCHANGED <<loop, op, info, ret, answering>>
  BY DEF AtOnce, radio, type4
<1> QED  BY <1>1, SourceKept

LEMMA CallSource ==
  ASSUME AdapterInv, SourceInv,
         \/ Read \/ (\E m \in Messages : Write(m)) \/ Erase \/ Format \/ Clean
  PROVE  SourceInv'
<1>1. ASSUME NEW m, Write(m)
      PROVE  SourceInv'
  BY <1>1, CallDriverSource, AtOnceSource DEF Write
<1>2. CASE Format
  <2>1. /\ loop = "call"
        /\ \/ CallDriver("format", << >>)
           \/ AtOnce("true") \/ AtOnce("false")
    BY <1>2 DEF Format
  <2> QED  BY <2>1, CallDriverSource, AtOnceSource
<1>3. CASE Clean
  BY <1>3, CallDriverSource, AtOnceSource DEF Clean
<1>4. CASE Read
  <2>1. loop = "call"
    BY <1>4 DEF Read
  <2>2. CASE info \in Classic /\ CallDriver("read", << >>)
    BY <2>1, <2>2, CallDriverSource
  <2>3. CASE info \in Ultralight /\ CallDriver("look", << >>)
    BY <2>1, <2>3, CallDriverSource
  <2>4. CASE /\ info \in Type4Cards /\ StartRead /\ loop' = "type4"
             /\ UNCHANGED <<answering, info>>
    BY <2>1, <2>4 DEF SourceInv, StartRead, NoReturn
  <2>5. CASE UNCHANGED <<radio, type4, loop, call>>
    BY <2>5, SourceKept DEF radio, type4, call
  <2> QED  BY <1>4, <2>2, <2>3, <2>4, <2>5 DEF Read
<1> QED  BY <1>1, <1>2, <1>3, <1>4 DEF Erase

LEMMA DriverReturnSource ==
  ASSUME SourceInv, DriverReturn
  PROVE  SourceInv'
<1>1. /\ loop = "driver" /\ loop' = "call" /\ info' = info
      /\ answering' = answering \/ answering' = NoCard
  BY DEF DriverReturn, DriverReturns, ReadSucceeds, ReadFails, EmptyInvented,
         ChangeSucceeds, ChangeFails, Deselected
<1>2. answering # NoCard => answering = info
  BY <1>1 DEF SourceInv
<1> QED  BY <1>1, <1>2, SourceCall

LEMMA Type4CommandSource ==
  ASSUME AdapterInv, SourceInv, Type4Command
  PROVE  SourceInv'
<1>1. /\ loop = "type4" /\ Command /\ UNCHANGED <<loop, op, info, answering>>
      /\ Type4Inv
  BY DEF Type4Command, AdapterInv, call
<1>2. CASE ret' = ret
  BY <1>1, <1>2, SourceKept
<1>3. CASE ret' # ret /\ ret'.status = "ok"
  <2>1. answering \in Type4Cards /\ ReadOf(answering, ret'.msg)
    BY <1>1, <1>3, CommandReturns DEF Here
  <2>2. answering = info
    BY <1>1, <2>1, NoCardIsNone DEF SourceInv
  <2> QED  BY <1>1, <2>1, <2>2 DEF SourceInv, ReadOf
<1>4. CASE ret'.status # "ok"
  BY <1>1, <1>4 DEF SourceInv
<1> QED  BY <1>2, <1>3, <1>4

LEMMA SourceStep ==
  ASSUME AdapterInv, SourceInv, [AdapterNext]_adapterVars
  PROVE  SourceInv'
<1>1. CASE Environment
  <2>1. ASSUME NEW c \in Cards, Place(c)
        PROVE  SourceInv'
    BY <2>1, SourceKept DEF Place, type4, call
  <2>2. CASE Remove
    BY <2>2, SourceKept DEF Remove, type4, call
  <2>3. CASE Restart
    BY <2>3, SourceCall DEF Restart
  <2> QED  BY <1>1, <2>1, <2>2, <2>3 DEF Environment
<1>2. CASE TagPresent
  <2>1. loop = "poll" /\ UNCHANGED <<type4, call>>
    BY <1>2 DEF TagPresent
  <2>2. \/ answering' = info' /\ loop' \in {"poll", "call"}
        \/ loop' = "poll"
    BY <1>2, <2>1 DEF TagPresent
  <2> QED  BY <2>2, SourceCall
<1>3. CASE HaltTag
  <2>1. UNCHANGED <<loop, op, info, ret>>
    BY <1>3 DEF HaltTag, type4, call
  <2>2. answering' = answering \/ answering' = NoCard
    BY <1>3 DEF HaltTag, Deselected
  <2> QED  BY <2>1, <2>2, SourceKept
<1>4. ASSUME NEW k \in MifareKeys, SetMifareKey(k)
      PROVE  SourceInv'
  BY <1>4, SourceKept DEF SetMifareKey, radio, type4, call
<1>5. CASE Read \/ (\E m \in Messages : Write(m)) \/ Erase \/ Format \/ Clean
  BY <1>5, CallSource
<1>6. CASE DriverWorks
  BY <1>6, SourceKept DEF DriverWorks, type4, call
<1>7. CASE DriverReturn
  BY <1>7, DriverReturnSource
<1>8. CASE Type4Command
  BY <1>8, Type4CommandSource
<1>9. CASE Type4Returns
  <2>1. loop = "type4" /\ loop' = "call" /\ UNCHANGED <<answering, info>>
    BY <1>9 DEF Type4Returns, radio
  <2>2. answering # NoCard => answering = info
    BY <2>1 DEF SourceInv
  <2> QED  BY <2>1, <2>2, SourceCall
<1>10. CASE Keep \/ Drop
  BY <1>10, SourceKept DEF Keep, Drop, radio, type4, call
<1>11. CASE EndLoop
  BY <1>11, SourceCall DEF EndLoop
<1>12. CASE UNCHANGED adapterVars
  BY <1>12, SourceKept DEF adapterVars, vars, call
<1> QED  BY <1>1, <1>2, <1>3, <1>4, <1>5, <1>6, <1>7, <1>8, <1>9, <1>10, <1>11,
            <1>12
         DEF AdapterNext

LEMMA DeliversIs ==
  ASSUME NEW c \in Cards, NEW m
  PROVE  /\ c \in Classic /\ m = store[c] => Delivers(c, m)
         /\ c \in Ultralight /\ m = EmptyMessage => Delivers(c, m)
         /\ /\ c \in Ultralight /\ Len(m) = Len(store[c])
            /\ \A i \in 1 .. (Len(m) - 1) : m[i] = store[c][i]
            => Delivers(c, m)
<1>1. CASE c \in Classic
  <2>1. c \notin Ultralight /\ c \notin Type4Cards
    BY <1>1, PoolsApart
  <2> QED  BY <1>1, <2>1 DEF Delivers
<1>2. CASE c \in Ultralight
  <2>1. c \notin Classic /\ c \notin Type4Cards
    BY <1>2, PoolsApart
  <2> QED  BY <1>2, <2>1 DEF Delivers
<1> QED  BY <1>1, <1>2

\* The last element of a sequence is replaced.
LEMMA LastReplaced ==
  ASSUME NEW n \in Nat, NEW s \in [1 .. n -> Int], NEW m,
         m = [s EXCEPT ![n] = Garbage]
  PROVE  /\ m \in [1 .. n -> Int]
         /\ \A i \in 1 .. (n - 1) : m[i] = s[i]
<1>1. Garbage \in Int
  BY DEF Garbage
<1>2. m \in [1 .. n -> Int]
  BY <1>1
<1>3. \A i \in 1 .. (n - 1) : i \in 1 .. n /\ i # n
  OBVIOUS
<1> QED  BY <1>2, <1>3

LEMMA EndReplaced ==
  ASSUME NEW s \in Seq(Int)
  PROVE  LET m == [s EXCEPT ![Len(s)] = Garbage]
         IN  /\ Len(m) = Len(s)
             /\ \A i \in 1 .. (Len(m) - 1) : m[i] = s[i]
<1> DEFINE n == Len(s)  m == [s EXCEPT ![n] = Garbage]
<1>1. s \in [1 .. n -> Int] /\ n \in Nat
  BY LenProperties
<1>2. m = [s EXCEPT ![n] = Garbage]
  OBVIOUS
<1> HIDE DEF n, m
<1>3. m \in [1 .. n -> Int] /\ \A i \in 1 .. (n - 1) : m[i] = s[i]
  BY <1>1, <1>2, LastReplaced, ZenonT(40)
<1>4. Len(m) = n
  BY <1>1, <1>3, FunctionIsSeq
<1>5. Len(m) = n /\ \A i \in 1 .. (Len(m) - 1) : m[i] = s[i]
  BY <1>3, <1>4
<1> QED  BY <1>5 DEF m, n

\* What the drivers deliver.
LEMMA DriverTruth ==
  ASSUME AdapterInv, SourceInv, DriverReturn
  PROVE  ObjectsTrue
<1>1. /\ info \in Cards /\ loop = "driver" /\ ObjectsInv
      /\ store \in [Classic \cup Ultralight -> Contents]
  BY DriverFacts
  DEF AdapterInv, DriverReturn, DriverReturns, ReadSucceeds, ReadFails,
      EmptyInvented, ChangeSucceeds, ChangeFails
<1>2. CASE ReadSucceeds
  <2>1. PICK m \in IF op = "read" THEN {store[info]}
                                  ELSE {store[info], EndMissing(store[info])} :
          NewTagWith("tag", info,
                     IF op = "read" THEN "MIFARE_1K" ELSE "MIFARE_UL", m)
    BY <1>2 DEF ReadSucceeds
  <2>2. CASE op = "read"
    <3>1. info \in Classic /\ m = store[info]
      BY <1>1, <2>1, <2>2 DEF SourceInv
    <3>2. Delivers(info, m)
      BY <1>1, <3>1, DeliversIs
    <3> QED  BY <1>1, <2>1, <3>2, NewTagWithTruth
  <2>3. CASE op = "look"
    <3>1. info \in Ultralight /\ info \notin Classic
      BY <1>1, <2>3, PoolsApart DEF SourceInv
    <3>2. store[info] \in Seq(Int)
      BY <1>1, <3>1, AdapterAssumption
    <3>3. /\ Len(m) = Len(store[info])
          /\ \A i \in 1 .. (Len(m) - 1) : m[i] = store[info][i]
      <4>1. CASE m = store[info]
        BY <4>1
      <4>2. CASE m = EndMissing(store[info])
        BY <3>2, <4>2, EndReplaced DEF EndMissing
      <4> QED  BY <2>1, <2>3, <4>1, <4>2
    <3>4. Delivers(info, m)
      BY <1>1, <3>1, <3>3, DeliversIs
    <3> QED  BY <1>1, <2>1, <3>4, NewTagWithTruth
  <2> QED  BY <1>2, <2>2, <2>3 DEF ReadSucceeds
<1>3. CASE ReadFails
  BY <1>1, <1>3, NewTagTruth DEF ReadFails
<1>4. CASE EmptyInvented
  <2>1. info \in Ultralight /\ info \notin Classic
    BY <1>1, <1>4, PoolsApart DEF SourceInv, EmptyInvented
  <2>2. Delivers(info, EmptyMessage)
    BY <1>1, <2>1, DeliversIs
  <2> QED  BY <1>1, <1>4, <2>2, NewTagWithTruth DEF EmptyInvented
<1>5. CASE ChangeSucceeds \/ ChangeFails
  BY <1>1, <1>5, ObjectsKeptTruth DEF ChangeSucceeds, ChangeFails
<1> QED  BY <1>2, <1>3, <1>4, <1>5 DEF DriverReturn

LEMMA Type4Truth ==
  ASSUME AdapterInv, SourceInv, Type4Returns
  PROVE  ObjectsTrue
<1>1. loop = "type4" /\ info \in Type4Cards /\ info \in Cards /\ ObjectsInv
  BY NoCardIsNone DEF Type4Returns, SourceInv, AdapterInv
<1>2. CASE /\ ret.status = "ok"
           /\ NewTagWith("tag", info, "ISO_14443_4", ret.msg)
  <2>1. ReadOf(info, ret.msg) /\ info \notin Classic /\ info \notin Ultralight
    BY <1>1, <1>2, PoolsApart DEF SourceInv
  <2>2. Delivers(info, ret.msg)
    BY <1>1, <2>1 DEF Delivers
  <2> QED  BY <1>1, <1>2, <2>2, NewTagWithTruth
<1>3. CASE NewTag("tag", info, "ISO_14443_4", FALSE)
  BY <1>1, <1>3, NewTagTruth
<1> QED  BY <1>2, <1>3 DEF Type4Returns

LEMMA TruthStep ==
  ASSUME AdapterInv, SourceInv, [AdapterNext]_adapterVars
  PROVE  ObjectsTrue
<1>1. ObjectsInv
  BY DEF AdapterInv
<1>2. CASE Environment
  <2>1. CASE Restart
    BY <2>1 DEF Restart, Nobody, ObjectsTrue
  <2>2. CASE UNCHANGED tagVars
    BY <1>1, <2>2, ObjectsKeptTruth
  <2> QED  BY <1>2, <2>1, <2>2 DEF Environment, Place, Remove
<1>3. CASE TagPresent \/ HaltTag \/ (\E k \in MifareKeys : SetMifareKey(k))
  BY <1>1, <1>3, ObjectsKeptTruth DEF TagPresent, HaltTag, SetMifareKey
<1>4. CASE Read
  <2>1. CASE NewTag("tag", info, PiccType[info], FALSE)
    BY <1>1, <2>1, NewTagTruth
  <2>2. CASE UNCHANGED tagVars
    BY <1>1, <2>2, ObjectsKeptTruth
  <2> QED  BY <1>4, <2>1, <2>2 DEF Read, CallDriver
<1>5. CASE (\E m \in Messages : Write(m)) \/ Erase \/ Format \/ Clean
  <2>1. UNCHANGED tagVars
    BY <1>5 DEF Write, Erase, Format, Clean, CallDriver, AtOnce
  <2> QED  BY <1>1, <2>1, ObjectsKeptTruth
<1>6. CASE DriverWorks \/ Type4Command
  BY <1>1, <1>6, ObjectsKeptTruth DEF DriverWorks, Type4Command
<1>7. CASE DriverReturn \/ Type4Returns
  BY <1>7, DriverTruth, Type4Truth
<1>8. CASE Keep \/ Drop \/ EndLoop
  BY <1>1, <1>8, AssignTagTruth, DeleteTagTruth, ObjectsKeptTruth
  DEF Keep, Drop, EndLoop
<1>9. CASE UNCHANGED adapterVars
  BY <1>1, <1>9, ObjectsKeptTruth DEF adapterVars
<1> QED  BY <1>2, <1>3, <1>4, <1>5, <1>6, <1>7, <1>8, <1>9 DEF AdapterNext
-----------------------------------------------------------------------------
\* The inductive invariant holds throughout every behaviour of a sketch.
THEOREM AdapterInvariance == AdapterSpec => [](AdapterInv /\ SourceInv)
<1>1. AdapterInit => AdapterInv /\ SourceInv
  BY AdapterInitInvariant DEF AdapterInit, SourceInv
<1>2. AdapterInv /\ SourceInv /\ [AdapterNext]_adapterVars
        => AdapterInv' /\ SourceInv'
  BY AdapterNextStep, SourceStep
<1> QED  BY <1>1, <1>2, PTL DEF AdapterSpec

\* Objects, operations, reader and cards keep their types, and a card that
\* answers is the selected one in the field.
THEOREM AdapterTypeCorrect == AdapterSpec => []AdapterTypeOK
<1>1. AdapterInv => AdapterTypeOK
  BY DEF AdapterInv, Type4Inv, ObjectsInv, RadioInv, LoopInv, SketchInv,
         AdapterTypeOK
<1> QED  BY <1>1, AdapterInvariance, PTL

\* A card that haltTag has reached does not answer again before it is taken
\* out of the field, whatever was called before and whatever was lost.
THEOREM HaltAlwaysHides == AdapterSpec => []HaltHides
<1>1. AdapterInv => HaltHides
  BY DEF AdapterInv, RadioInv, HaltHides
<1> QED  BY <1>1, AdapterInvariance, PTL

\* No message of a tag object is leaked, deleted twice or used after it was
\* deleted.
THEOREM MessagesAlwaysOwned == AdapterSpec => []MessagesOwned
<1>1. AdapterInv => MessagesOwned
  BY DEF AdapterInv, ObjectsInv
<1> QED  BY <1>1, AdapterInvariance, PTL

\* Under the adapter too, with cards that are exchanged between operations
\* and boards that restart within one, reads meet their file, put the pieces
\* in order and return what is on a tag but for two bytes.
THEOREM AdapterReadsInOrder ==
  AdapterSpec => [](ReadsMeetTheirFile /\ PiecesInOrder /\ ReadsAllButTwo)
<1>1. AdapterInv => ReadsMeetTheirFile /\ PiecesInOrder /\ ReadsAllButTwo
  BY DEF AdapterInv, Type4Inv
<1> QED  BY <1>1, AdapterInvariance, PTL

\* A tag object pairs a message with the card it was read from, or was
\* assigned from an object that did.
THEOREM TagsAlwaysTellTruth == AdapterSpec => TagsTellTruth
<1>1. AdapterInv /\ SourceInv /\ [AdapterNext]_adapterVars =>
        [\A t \in DOMAIN tags' :
           tags'[t].message # Null => TellsTruth(t)]_adapterVars
  BY TruthStep DEF ObjectsTrue
<1> QED  BY <1>1, AdapterInvariance, PTL DEF AdapterSpec, TagsTellTruth
=============================================================================
