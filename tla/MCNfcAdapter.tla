----------------------------- MODULE MCNfcAdapter -----------------------------
(***************************************************************************)
(* A sketch and five cards for TLC: a Classic card that opens with the     *)
(* driver's own key, an Ultralight card, a card without a driver, and two  *)
(* Type 4 tags, one that holds more than its container has room for and    *)
(* one that lacks bytes it counts.                                         *)
(***************************************************************************)
EXTENDS NfcAdapterProperties, MCType4Tag, TLC

ClassicCard == 201
UltralightCard == 202
DesfireCard == 203

MCPiccType ==
  [c \in Type4Cards \cup {ClassicCard, UltralightCard, DesfireCard} |->
     CASE c = ClassicCard -> "MIFARE_1K"
       [] c = UltralightCard -> "MIFARE_UL"
       [] c = DesfireCard -> "MIFARE_DESFIRE"
       [] OTHER -> "ISO_14443_4"]

MCEmpty == <<0>>
MCMessages == {MCEmpty}
MCStore == (ClassicCard :> <<3, 4>>) @@ (UltralightCard :> NoMessage)
MCCardKey == ClassicCard :> "null"
MCTwoFiles == [c \in {Cramped, Lacks} |-> MCFiles[c]]
=============================================================================
