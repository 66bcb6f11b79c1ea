------------------------------ MODULE NfcAdapter ------------------------------
(***************************************************************************)
(* A sketch, the adapter of src/NfcAdapter.cpp, its drivers, and the cards *)
(* that come and go in front of the reader.                                *)
(*                                                                         *)
(* The sketch is that of the examples: the body of loop() begins with      *)
(* tagPresent and then calls operations of the adapter, which picks a      *)
(* driver by the type of the card it has found last (shield->tag).  The    *)
(* driver of Type 4 tags runs step by step, Type4Tag.  The other two are   *)
(* what their own modules show them to be, message cells: NdefStore.       *)
(*                                                                         *)
(* Cards are placed and taken away at any time, calls are lost, and the    *)
(* board may restart in the middle of an operation.                        *)
(***************************************************************************)
EXTENDS Type4Tag, NfcTag

CONSTANTS
  PiccType,       \* the cards, and the type PICC_GetType tells of each
  InitialStore,   \* what the Classic and Ultralight cards hold at first
  CardKey,        \* the key that opens a Classic card
  Messages,       \* messages the sketch writes
  EmptyMessage,   \* the message with an empty record
  MifareKeys      \* keys for setMifareKey

Cards == DOMAIN PiccType
Classic == {c \in Cards :
              PiccType[c] \in {"MIFARE_MINI", "MIFARE_1K", "MIFARE_4K"}}
Ultralight == {c \in Cards : PiccType[c] = "MIFARE_UL"}

\* The types tagPresent accepts.
Supported == {"ISO_14443_4", "ISO_18092", "MIFARE_MINI", "MIFARE_1K",
              "MIFARE_4K", "MIFARE_UL", "MIFARE_PLUS", "MIFARE_DESFIRE",
              "TNP3XXX"}

\* The null pointer stands for the default key of MifareClassic.cpp.
NullKey == "null"

\* Contents of a card that are no message of the sketch, told from one by
\* their bytes: what an unfinished change has left, and no message at all.
Torn == <<Garbage>>
NoMessage == <<Garbage, Garbage>>
Contents == Messages \cup {EmptyMessage, NoMessage, Torn}
              \cup {InitialStore[c] : c \in DOMAIN InitialStore}

ASSUME AdapterAssumption ==
  /\ NoCard \notin Cards
  /\ Type4Cards = {c \in Cards : PiccType[c] = "ISO_14443_4"}
  /\ InitialStore \in [Classic \cup Ultralight ->
                         {InitialStore[c] : c \in Classic \cup Ultralight}]
  /\ CardKey \in [Classic -> MifareKeys \cup {NullKey}]
  /\ {"tag", "last"} \subseteq TagVars
  /\ << >> \notin Contents /\ Contents \subseteq Seq(Int)

VARIABLES
  field,    \* the card in front of the reader
  state,    \* its state: "away", "idle", "active", "authed", "halted"
  hidden,   \* haltTag has reached the card in the field
  crypto,   \* the reader encrypts what it sends
  info,     \* shield->tag: the card that was selected last
  store,    \* what the Classic and Ultralight cards hold
  key,      \* _key
  loop,     \* the sketch: "poll" or "call", or a driver: "driver", "type4"
  op,       \* the operation of a running Classic or Ultralight driver
  arg,      \* the message it writes
  result    \* what it returned

radio == <<field, state, hidden, crypto, info, answering, selected>>
type4 == <<pc, locals, ret>>
call == <<op, arg, result>>
adapterVars == <<vars, tagVars, field, state, hidden, crypto, info, store, key,
                 loop, call>>

\* A tag object the sketch has made before a card was read.
Nobody == [uid |-> NoCard, type |-> "UNKNOWN", formatted |-> FALSE,
           message |-> Null]

NoResult == [is |-> "none", msg |-> << >>]
Says(is) == [is |-> is, msg |-> << >>]
Changing == {"write", "format", "clean"}

\* What a Classic or Ultralight driver promises of the card it works on.
Driver == INSTANCE NdefStore WITH cell <- store[info]
-----------------------------------------------------------------------------
(***************************************************************************)
(* Cards in front of the reader.                                           *)
(***************************************************************************)
Place(c) ==
  /\ field = NoCard /\ field' = c /\ state' = "idle"
  /\ UNCHANGED <<answering, selected, faults, type4, tagVars, hidden, crypto,
                 info, store, key, loop, call>>

Remove ==
  /\ field # NoCard /\ field' = NoCard /\ state' = "away"
  /\ hidden' = FALSE /\ answering' = NoCard /\ selected' = "none"
  /\ UNCHANGED <<faults, type4, tagVars, crypto, info, store, key, loop, call>>

\* The selected card stops listening.
Deselected(s) == state' = s /\ answering' = NoCard /\ selected' = "none"

Fault == faults < MaxFaults /\ faults' = faults + 1

\* The board restarts, setup() runs again.  Cards keep what they hold.
Restart ==
  /\ Fault
  /\ Deselected(IF field = NoCard THEN "away" ELSE "idle")
  /\ hidden' = FALSE /\ crypto' = FALSE /\ info' = NoCard
  /\ pc' = "idle" /\ ret' = NoReturn
  /\ fileId' = 0 /\ maxSize' = 0 /\ fileSize' = 0 /\ pos' = 0 /\ out' = << >>
  /\ tags' = [t \in {"last"} |-> Nobody] /\ messages' = << >>
  /\ key' = NullKey /\ loop' = "poll"
  /\ op' = "none" /\ arg' = << >> /\ result' = NoResult
  /\ UNCHANGED <<field, store>>
-----------------------------------------------------------------------------
(* NfcAdapter::tagPresent, haltTag and setMifareKey *)

\* Mutation of CryptoAtRequest: the session is not stopped.
CryptoAtRequestKept == crypto

\* PCD_StopCrypto1 comes before the request.
CryptoAtRequest == FALSE

Answers == state = "idle" /\ ~CryptoAtRequest

\* An idle card answers and is selected.  A card that is active already does
\* not answer, and most drop back to idle.
TagPresent ==
  /\ loop = "poll"
  /\ crypto' = CryptoAtRequest
  /\ \/ /\ Answers
        /\ state' = "active" /\ answering' = field /\ info' = field
        /\ loop' = IF PiccType[field] \in Supported THEN "call" ELSE "poll"
        /\ UNCHANGED <<selected, faults>>
     \/ /\ Answers /\ Fault
        /\ state' \in {"idle", "active"}
        /\ UNCHANGED <<answering, selected, info, loop>>
     \/ /\ ~Answers
        /\ \/ state \in {"active", "authed"} /\ Deselected("idle")
           \/ UNCHANGED <<state, answering, selected>>
        /\ UNCHANGED <<info, loop, faults>>
  /\ UNCHANGED <<type4, tagVars, field, hidden, store, key, call>>

\* Mutation of CryptoAtHalt: the session is stopped first.
CryptoAtHaltStopped == FALSE

\* PCD_StopCrypto1 comes after PICC_HaltA.
CryptoAtHalt == crypto

HaltUnderstood == state = IF CryptoAtHalt THEN "authed" ELSE "active"

\* A card that cannot read the command drops back to idle.  A Type 4 tag may
\* ignore it.
HaltTag ==
  /\ loop = "call"
  /\ crypto' = FALSE
  /\ \/ /\ answering # NoCard
        /\ Deselected(IF HaltUnderstood THEN "halted" ELSE "idle")
        /\ hidden' = TRUE
        /\ UNCHANGED faults
     \/ /\ answering \in Type4Cards
        /\ UNCHANGED <<state, answering, selected, hidden, faults>>
     \/ /\ answering # NoCard /\ Fault
        /\ IF state = "authed"
             THEN Deselected(state)
             ELSE UNCHANGED <<state, answering, selected>>
        /\ UNCHANGED hidden
     \/ /\ answering = NoCard
        /\ UNCHANGED <<state, answering, selected, hidden, faults>>
  /\ UNCHANGED <<type4, tagVars, field, info, store, key, loop, call>>

SetMifareKey(k) ==
  /\ loop = "poll" /\ key # k /\ key' = k
  /\ UNCHANGED <<radio, faults, type4, tagVars, store, loop, call>>
-----------------------------------------------------------------------------
(***************************************************************************)
(* read, write, erase, format and clean: the adapter calls the driver for  *)
(* the type of card that shield->tag describes.                            *)
(***************************************************************************)
CallDriver(o, m) ==
  /\ loop' = "driver" /\ op' = o /\ arg' = m /\ result' = NoResult
  /\ UNCHANGED <<radio, faults, type4, tagVars, store, key>>

AtOnce(answer) ==
  /\ result' = Says(answer)
  /\ UNCHANGED <<radio, faults, type4, tagVars, store, key, loop, op, arg>>

Write(m) ==
  /\ loop = "call"
  /\ IF info \in Classic \cup Ultralight THEN CallDriver("write", m)
                                         ELSE AtOnce("false")

\* Mutation of Erase: the message stays without a record.
EraseNoRecord == Write(<< >>)

\* addEmptyRecord, then write.
Erase == Write(EmptyMessage)

Format ==
  /\ loop = "call"
  /\ CASE info \in Classic -> CallDriver("format", << >>)
       [] info \in Ultralight -> AtOnce("true")
       [] OTHER -> AtOnce("false")

Clean ==
  /\ loop = "call"
  /\ IF info \in Classic \cup Ultralight THEN CallDriver("clean", << >>)
                                         ELSE AtOnce("false")

\* A read by the Ultralight driver promises less: "look" is not "read".
Read ==
  /\ loop = "call" /\ ~TagAlive("tag")
  /\ CASE info \in Classic -> CallDriver("read", << >>)
       [] info \in Ultralight -> CallDriver("look", << >>)
       [] info \in Type4Cards ->
            /\ StartRead /\ loop' = "type4"
            /\ UNCHANGED <<answering, tagVars, field, state, hidden, crypto,
                           info, store, key, call>>
       [] OTHER ->
            /\ NewTag("tag", info, PiccType[info], FALSE)
            /\ UNCHANGED <<radio, faults, type4, store, key, loop, call>>
-----------------------------------------------------------------------------
(***************************************************************************)
(* The Classic and Ultralight drivers.                                     *)
(***************************************************************************)
Reaches == answering = info

\* The driver is at work on the card: it authenticates for a Classic card,
\* and a change is incomplete until it returns.
DriverWorks ==
  /\ loop = "driver" /\ Reaches
  /\ IF info \in Classic THEN state' = "authed" /\ crypto' = TRUE
                         ELSE UNCHANGED <<state, crypto>>
  /\ store' = IF op \in Changing THEN [store EXCEPT ![info] = Torn] ELSE store
  /\ op \in Changing => Driver!Work
  /\ UNCHANGED <<field, hidden, info, answering, selected, faults, type4,
                 tagVars, key, loop, call>>

DriverReturns(r) ==
  /\ loop = "driver" /\ loop' = "call"
  /\ op' = "none" /\ arg' = << >> /\ result' = r
  /\ UNCHANGED <<field, hidden, info, type4, key>>

\* The end of a message may be missing when the Ultralight driver reads it.
EndMissing(m) == [m EXCEPT ![Len(m)] = Garbage]

\* read succeeds on a card that opens with the key.
ReadSucceeds ==
  /\ op \in {"read", "look"} /\ Reaches
  /\ \E m \in IF op = "read" THEN {store[info]}
                             ELSE {store[info], EndMissing(store[info])} :
       /\ store[info] # NoMessage
       /\ op = "read" => crypto /\ CardKey[info] = key
       /\ DriverReturns([is |-> "message", msg |-> m])
       /\ NewTagWith("tag", info,
                     IF op = "read" THEN "MIFARE_1K" ELSE "MIFARE_UL", m)
  /\ UNCHANGED <<state, crypto, answering, selected, faults, store>>
  /\ op = "read" => Driver!ReadMessage

\* read gives up: the card does not answer, or does not open, or there is no
\* message.  A refused authentication leaves a Classic card deaf.
ReadFails ==
  /\ op \in {"read", "look"}
  /\ DriverReturns(Says("no message"))
  /\ \E t \in IF op = "read" THEN {"MIFARE_1K", "UNKNOWN"} ELSE {"MIFARE_UL"} :
       NewTag("tag", info, t, FALSE)
  /\ \/ UNCHANGED <<state, answering, selected>>
     \/ op = "read" /\ Reaches /\ Deselected("idle")
  /\ UNCHANGED <<crypto, faults, store>>

\* The Ultralight driver takes a length it could not read for zero.
EmptyInvented ==
  /\ op = "look"
  /\ IF Reaches /\ store[info] # NoMessage THEN Fault ELSE UNCHANGED faults
  /\ DriverReturns([is |-> "message", msg |-> EmptyMessage])
  /\ NewTagWith("tag", info, "MIFARE_UL", EmptyMessage)
  /\ UNCHANGED <<state, crypto, answering, selected, store>>

\* write, format or clean succeeds; clean on a Classic card also says so
\* when it has only done a part.
ChangeSucceeds ==
  /\ op \in Changing /\ Reaches
  /\ info \in Classic => crypto
  /\ \E content \in CASE op = "write" -> {arg}
                      [] op = "format" -> {EmptyMessage}
                      [] OTHER -> {NoMessage} :
       store' = [store EXCEPT ![info] = content]
  /\ DriverReturns(Says("true"))
  /\ UNCHANGED <<tagVars, state, crypto, answering, selected, faults>>
  /\ op = "write" => Driver!Written

\* A change is given up, and what was done is not undone.
ChangeFails ==
  /\ op \in Changing
  /\ \/ DriverReturns(Says("false"))
     \/ /\ op = "clean" /\ info \in Classic /\ Reaches
        /\ DriverReturns(Says("true"))
  /\ \/ UNCHANGED <<state, answering, selected>>
     \/ info \in Classic /\ Reaches /\ Deselected("idle")
  /\ UNCHANGED <<tagVars, crypto, faults, store>>
  /\ Driver!Done

\* A command of the Type 4 driver.
Type4Command ==
  /\ loop = "type4" /\ Command
  /\ UNCHANGED <<answering, tagVars, field, state, hidden, crypto, info, store,
                 key, loop, call>>

\* Type4Tag::read returns a tag, with the message if it has read one.
Type4Returns ==
  /\ loop = "type4" /\ pc = "idle" /\ loop' = "call"
  /\ IF ret.status = "ok" THEN NewTagWith("tag", info, "ISO_14443_4", ret.msg)
                          ELSE NewTag("tag", info, "ISO_14443_4", FALSE)
  /\ ret' = NoReturn
  /\ UNCHANGED <<radio, faults, pc, locals, store, key, call>>
-----------------------------------------------------------------------------
(***************************************************************************)
(* The tag objects of the sketch.                                          *)
(***************************************************************************)
\* A global keeps the tag that was read.
Keep ==
  /\ loop = "call" /\ AssignTag("last", "tag")
  /\ UNCHANGED <<radio, faults, type4, store, key, loop, call>>

\* The variable of the loop goes out of scope.
Drop ==
  /\ loop = "call" /\ DeleteTag("tag")
  /\ UNCHANGED <<radio, faults, type4, store, key, loop, call>>

\* The body of loop() ends.
EndLoop ==
  /\ loop = "call" /\ loop' = "poll" /\ result' = NoResult
  /\ IF TagAlive("tag") THEN DeleteTag("tag") ELSE UNCHANGED tagVars
  /\ UNCHANGED <<radio, faults, type4, store, key, op, arg>>
-----------------------------------------------------------------------------
AdapterInit ==
  /\ Init /\ answering = NoCard
  /\ tags = [t \in {"last"} |-> Nobody] /\ messages = << >>
  /\ field = NoCard /\ state = "away" /\ hidden = FALSE /\ crypto = FALSE
  /\ info = NoCard /\ store = InitialStore
  /\ key = NullKey /\ loop = "poll"
  /\ op = "none" /\ arg = << >> /\ result = NoResult

DriverReturn == ReadSucceeds \/ ReadFails \/ EmptyInvented \/ ChangeSucceeds
                  \/ ChangeFails

Environment == (\E c \in Cards : Place(c)) \/ Remove \/ Restart

AdapterNext ==
  \/ Environment
  \/ TagPresent \/ HaltTag \/ (\E k \in MifareKeys : SetMifareKey(k))
  \/ Read \/ (\E m \in Messages : Write(m)) \/ Erase \/ Format \/ Clean
  \/ DriverWorks \/ DriverReturn \/ Type4Command \/ Type4Returns
  \/ Keep \/ Drop \/ EndLoop

AdapterSpec == AdapterInit /\ [][AdapterNext]_adapterVars

\* Every operation returns, and the body of loop() makes a finite number of
\* calls.
FairAdapterSpec ==
  /\ AdapterSpec
  /\ WF_adapterVars(TagPresent) /\ WF_adapterVars(DriverReturn)
  /\ WF_adapterVars(Type4Command \/ Type4Returns)
  /\ SF_adapterVars(EndLoop)
=============================================================================
