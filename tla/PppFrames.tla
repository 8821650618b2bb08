------------------------------ MODULE PppFrames ------------------------------
(***************************************************************************)
(* HDLC-like frames of PPP: byte stuffing, make_ppp_frame() and PppParser  *)
(* of protocol/ppp.py, over the bytes of CmuxFrames. A checksum is never   *)
(* stuffed here: its value is left open and is no flag.                    *)
(***************************************************************************)
EXTENDS CmuxFrames, SequencesExt

CONSTANTS
    PppFlag, PppEsc,        \* 0x7E, 0x7D
    PppAddr, PppCtrl,       \* 0xFF, 0x03
    Controls,               \* 0x00 .. 0x1F
    Bit                     \* 0x20, the bit that stuffing flips

(* Flipping the bit makes no byte that is stuffed of one that is.          *)
ASSUME PppFramesAssumption ==
    /\ {PppFlag, PppEsc, PppAddr, PppCtrl} \subseteq Byte
    /\ Bit \in Nat \ {0} /\ LenBase % Bit = 0
    /\ Controls \subseteq 0 .. Bit - 1
    /\ PppFlag >= 2 * Bit /\ PppEsc >= 2 * Bit
    /\ PppFlag - PppEsc \notin {0, Bit, 0 - Bit}

(* Mutant: the bit is added instead of flipped.                            *)
FlipAdds(v) == v + Bit

Flip(v) == IF (v \div Bit) % 2 = 0 THEN v + Bit ELSE v - Bit

ToStuff == Controls \union {PppEsc, PppFlag}

(* ppp_escape()                                                            *)
Escape(s) ==
    FlattenSeq([i \in DOMAIN s |->
        IF Len(s[i]) = 1 /\ Val(s[i]) \in ToStuff
        THEN <<Plain(PppEsc), Plain(Flip(Val(s[i])))>>
        ELSE <<s[i]>>])

(* ppp_unescape(): an escape byte at the end stands for itself.            *)
Unescape(s) ==
    LET from[i \in 1 .. Len(s) + 1] ==
            IF i > Len(s) THEN <<>>
            ELSE IF s[i] = Plain(PppEsc) /\ i < Len(s)
                 THEN <<Plain(Flip(Val(s[i + 1])))>> \o from[i + 2]
                 ELSE <<s[i]>> \o from[i + 1]
    IN  from[1]

(* Low and high byte of the checksum of a content. It is of another kind   *)
(* than the multiplexer's: <<content>> is the header of no frame.          *)
PppCheck(content) == <<Check(0, <<content>>), Check(1, <<content>>)>>

(* make_ppp_frame(): with address, control and two bytes of protocol, or   *)
(* compressed (ACFC and PFC) to one byte of protocol.                      *)
PppContent(p, compressed) ==
    IF compressed THEN <<Plain(p.proto)>> \o p.info
    ELSE <<Plain(PppAddr), Plain(PppCtrl), Plain(0), Plain(p.proto)>> \o p.info

MakePppFrame(p, compressed) ==
    LET content == PppContent(p, compressed) IN
    <<Plain(PppFlag)>> \o Escape(content \o PppCheck(content)) \o <<Plain(PppFlag)>>

-----------------------------------------------------------------------------
(* PppParser._parse(), on the bytes between two flags.                     *)

HasHeader(s) == s[1] = Plain(PppAddr) /\ s[2] = Plain(PppCtrl)

(* Bytes ahead of the information: the header, and one or two of protocol. *)
Ahead(s) ==
    IF HasHeader(s) THEN 4 ELSE IF Val(s[1]) % 2 = 1 THEN 1 ELSE 2

LongEnough(s) ==
    /\ Len(s) >= 2
    /\ HasHeader(s) => Len(s) >= 6
    /\ Ahead(s) = 2 => Len(s) >= 4

(* Mutant: the checksum is not looked at.                                  *)
PppSoundUnchecked(s) == LongEnough(s)

PppSound(s) ==
    /\ LongEnough(s)
    /\ LET content == SubSeq(s, 1, Len(s) - 2) IN
       SubSeq(s, Len(s) - 1, Len(s)) = PppCheck(content)

PacketOf(s) ==
    [proto |-> Val(s[Ahead(s)]), info |-> SubSeq(s, Ahead(s) + 1, Len(s) - 2)]

(* The flag that ends a frame is consumed: it does not begin the next one. *)
PppParse(buf) ==
    LET from[i \in 1 .. Len(buf) + 1] ==
            LET flags == {k \in i .. Len(buf) : buf[k] = Plain(PppFlag)}
                first == Min(flags)
                second == Min(flags \ {first})
                body == Unescape(SubSeq(buf, first + 1, second - 1))
                next == from[second + 1]
            IN  IF flags = {} THEN [buffer |-> <<>>, packets |-> <<>>]
                ELSE IF flags = {first}
                THEN [buffer |-> SubSeq(buf, first, Len(buf)), packets |-> <<>>]
                ELSE IF ~PppSound(body) THEN next
                ELSE [buffer |-> next.buffer, packets |-> <<PacketOf(body)>> \o next.packets]
    IN  from[1]
=============================================================================
