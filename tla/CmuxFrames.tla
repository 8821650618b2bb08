----------------------------- MODULE CmuxFrames -----------------------------
(***************************************************************************)
(* The basic-option frames of the multiplexer: make_frame() and            *)
(* FrameParser of protocol/cmux.py, over bytes of any width.               *)
(*                                                                         *)
(* A byte is <<value>>. A checksum is <<value, what it was computed over>>:*)
(* it fits that and nothing else, which is what a CRC is used for; its     *)
(* value is any, the flag's included.                                      *)
(***************************************************************************)
EXTENDS Integers, Sequences, FiniteSetsExt

CONSTANTS
    LenBase,    \* lengths below it take one byte (128); a byte has 2 * LenBase values
    Flag        \* CMUX_FLAG (0xF9)

Byte == 0 .. 2 * LenBase - 1

ASSUME FramesAssumption ==
    /\ LenBase \in Nat \ {0}
    /\ Flag \in Byte /\ Flag % 4 = 1

Val(b) == b[1]
Plain(v) == <<v>>
PlainByte == {Plain(v) : v \in Byte}
Check(v, content) == <<v, content>>
Fits(b, content) == Len(b) = 2 /\ b[2] = content

IsFlag(b) == Val(b) = Flag

-----------------------------------------------------------------------------
(* EA, C/R and the channel.                                                *)
Address(dlci, cr) == Plain(1 + 2 * cr + 4 * dlci)

(* One byte with EA set, or two of which the second has no EA. A length of *)
(* 2 * LenBase * LenBase or more makes bytes() raise: N1 excludes it.      *)
(* Mutant: the limit of the one-byte form is off by one.                   *)
LenBytesOff(n) ==
    IF n <= LenBase
    THEN <<Plain((2 * n + 1) % (2 * LenBase))>>
    ELSE <<Plain(2 * (n % LenBase)), Plain(n \div LenBase)>>

LenBytes(n) ==
    IF n < LenBase
    THEN <<Plain(2 * n + 1)>>
    ELSE <<Plain(2 * (n % LenBase)), Plain(n \div LenBase)>>

(* v is the value the checksum happens to have.                            *)
MakeFrame(dlci, cr, ctrl, data, v) ==
    LET header == <<Address(dlci, cr), Plain(ctrl)>> \o LenBytes(Len(data)) IN
    <<Plain(Flag)>> \o header \o data \o <<Check(v, header), Plain(Flag)>>

-----------------------------------------------------------------------------
(* FrameParser._parse(): one frame of a buffer that begins with a flag.    *)

(* The first byte that is not a repeated flag.                             *)
FrameStart(buf) == Min({i \in 2 .. Len(buf) : ~IsFlag(buf[i])} \union {Len(buf) + 1})

LongForm(buf) == Val(buf[FrameStart(buf) + 2]) % 2 = 0

InfoStart(buf) == FrameStart(buf) + IF LongForm(buf) THEN 4 ELSE 3

(* Mutant: the second byte of a length is taken for the low bits.          *)
InfoLenSwapped(buf) ==
    LET at(i) == Val(buf[FrameStart(buf) + i]) IN
    IF LongForm(buf) THEN at(3) + (at(2) \div 2) * LenBase ELSE at(2) \div 2

InfoLen(buf) ==
    LET at(i) == Val(buf[FrameStart(buf) + i]) IN
    at(2) \div 2 + IF LongForm(buf) THEN at(3) * LenBase ELSE 0

(* Address, control, length, checksum and flag, then the information.      *)
Complete(buf) ==
    LET avail == Len(buf) - FrameStart(buf) + 1 IN
    /\ avail >= 5
    /\ LongForm(buf) => avail >= 6
    /\ Len(buf) - InfoStart(buf) + 1 >= InfoLen(buf) + 2

FrameEnd(buf) == InfoStart(buf) + InfoLen(buf) + 1

(* The checksum covers address, control and length only.                   *)
(* Mutant: the checksum is not looked at.                                  *)
SoundUnchecked(buf) == IsFlag(buf[FrameEnd(buf)])

Sound(buf) ==
    /\ IsFlag(buf[FrameEnd(buf)])
    /\ Fits(buf[FrameEnd(buf) - 1], SubSeq(buf, FrameStart(buf), InfoStart(buf) - 1))

FrameOf(buf) ==
    [dlci |-> Val(buf[FrameStart(buf)]) \div 4,
     info |-> SubSeq(buf, InfoStart(buf), FrameEnd(buf) - 2)]

(* What precedes a flag is dropped; a buffer without one is kept. A frame  *)
(* that is not sound is dropped as a whole, by the length it names.        *)
Parse(buf) ==
    LET from[i \in 1 .. Len(buf) + 1] ==
            LET flags == {k \in i .. Len(buf) : IsFlag(buf[k])}
                rest == SubSeq(buf, Min(flags), Len(buf))
                next == from[Min(flags) + FrameEnd(rest)]
            IN  IF flags = {} THEN [buffer |-> SubSeq(buf, i, Len(buf)), frames |-> <<>>]
                ELSE IF ~Complete(rest) THEN [buffer |-> rest, frames |-> <<>>]
                ELSE IF ~Sound(rest) THEN next
                ELSE [buffer |-> next.buffer, frames |-> <<FrameOf(rest)>> \o next.frames]
    IN  from[1]
=============================================================================
