------------------------- MODULE NfcAdapterProperties -------------------------
(***************************************************************************)
(* What a sketch may rely on while cards come and go.                      *)
(***************************************************************************)
EXTENDS NfcAdapter, Type4TagProperties

TagObject ==
  [uid : Cards \cup {NoCard}, type : Supported \cup {"UNKNOWN"},
   formatted : BOOLEAN, message : MessagePointers \cup {Null}]

\* The type invariant of cards, reader, drivers and sketch.  A card that
\* answers is the one in the field, selected, and described by shield->tag.
AdapterTypeOK ==
  /\ Type4TypeOK
  /\ DOMAIN tags \subseteq TagVars
  /\ \A t \in DOMAIN tags : tags[t] \in TagObject
  /\ DOMAIN messages \subseteq MessagePointers
  /\ field \in Cards \cup {NoCard} /\ info \in Cards \cup {NoCard}
  /\ state \in {"away", "idle", "active", "authed", "halted"}
  /\ hidden \in BOOLEAN /\ crypto \in BOOLEAN
  /\ store \in [Classic \cup Ultralight -> Contents]
  /\ key \in MifareKeys \cup {NullKey}
  /\ loop \in {"poll", "call", "driver", "type4"}
  /\ op \in Changing \cup {"none", "read", "look"}
  /\ arg \in Messages \cup {EmptyMessage, << >>}
  /\ result.is \in {"none", "message", "no message", "true", "false"}
  /\ answering # NoCard => field = answering /\ state \in {"active", "authed"}

\* "Current tag will not be visible until removed from the RFID field": when
\* haltTag has reached a card, that card does not answer again before it is
\* taken away, whatever operations came before.
HaltHides == hidden /\ field \notin Type4Cards => answering = NoCard

\* What a read of a card may deliver: the message on the card, or, of an
\* Ultralight card that did not answer, an empty record.  The end of a
\* message is missing on some cards.
Delivers(c, m) ==
  CASE c \in Classic -> m = store[c]
    [] c \in Ultralight ->
         \/ m = EmptyMessage
         \/ /\ Len(m) = Len(store[c])
            /\ \A i \in 1 .. (Len(m) - 1) : m[i] = store[c][i]
    [] c \in Type4Cards -> ReadOf(c, m)
    [] OTHER -> FALSE

\* A tag object tells the truth: it pairs a message with the identity of the
\* card it was read from, although the identity is taken from shield->tag
\* when the driver returns, cards are exchanged under a running operation,
\* and objects are assigned field by field.
TellsTruth(t) ==
  LET m == messages'[tags'[t].message]
  IN  \/ Delivers(tags'[t].uid, m)
      \/ \E s \in DOMAIN tags : /\ HasNdefMessage(s) /\ Message(s) = m
                                /\ tags[s].uid = tags'[t].uid

TagsTellTruth ==
  [][\A t \in DOMAIN tags' : tags'[t].message # Null => TellsTruth(t)]_adapterVars
-----------------------------------------------------------------------------
(* Liveness. *)

\* Once the link loses no more calls, a card that is placed is found if it
\* stays: neither a session left over from another card nor an operation on
\* a card that has gone keeps the adapter from selecting it.
CardIsFound ==
  state = "idle" /\ faults = MaxFaults ~> answering # NoCard \/ field = NoCard
=============================================================================
