---------------------------- MODULE CounterRender ----------------------------
(***************************************************************************)
(* The layout and drawing of src/src/counter.rs: render_separated_number   *)
(* splits a number into groups of three digits, sizes the image for the    *)
(* digits it has or reserves, finds the column of the first group from the *)
(* difference, and blits one group after the other into the pixel buffer.  *)
(*                                                                         *)
(* A glyph is kept as its digit and its left column, all glyphs being      *)
(* drawn on the same rows.  The pixels are those of the glyphs, in the     *)
(* order they were blitted; the buffer enters where it matters, in the     *)
(* index of the last byte that a glyph writes.                             *)
(***************************************************************************)
EXTENDS Font

CONSTANTS
    Numbers,   \* the counts to draw
    Reserves   \* the widths, in digits, to reserve

GROUP_SPACING == 3
BYTES_PER_PIXEL == 4
OFFSET_Y == 1   \* padding of one pixel above the glyphs

\* number.to_string()
ToString[n \in Nat] ==
    IF n < 10 THEN <<n>> ELSE Append(ToString[n \div 10], n % 10)

ASSUME NumbersAssumption == Numbers \subseteq Nat
ASSUME ReservesAssumption == Reserves \subseteq Nat

VARIABLES
    text,            \* the digits of the number
    reserve_width,   \* the least width of the image in digits
    drawn,           \* number of groups blitted
    x,               \* the column of the next group
    glyphs           \* the glyphs in the buffer, in the order they were blitted

vars == <<text, reserve_width, drawn, x, glyphs>>

AtLeast(m, n) == IF m >= n THEN m ELSE n

-----------------------------------------------------------------------------
(* Layout *)

\* Mutant: the spaces between groups are not part of the width.
WidthWithoutSpaces(len, reserve) == 2 + TextWidth(AtLeast(len, reserve))

\* Mutant: only the spaces of the number itself are part of the width.
WidthOfOwnSpaces(len, reserve) ==
    2 + TextWidth(AtLeast(len, reserve)) + GROUP_SPACING * (len \div 3)

Width(len, reserve) ==
    2 + TextWidth(AtLeast(len, reserve))
      + GROUP_SPACING * AtLeast(reserve \div 3, len \div 3)

Height == 2 + GLYPH_HEIGHT

\* Mutant: the spaces between the reserved groups are not skipped.
FirstXWithoutSpaces(len, reserve) == 1 + TextWidth(AtLeast(reserve - len, 0))

\* Mutant: a number longer than the reserved width is not filtered out.
FirstXUnfiltered(len, reserve) ==
    1 + TextWidth(reserve - len)
      + GROUP_SPACING * AtLeast(reserve \div 3 - len \div 3, 0)

\* The column of the first group: the characters that are reserved and not used,
\* and the spaces between groups of them.
FirstX(len, reserve) ==
    1 + TextWidth(AtLeast(reserve - len, 0))
      + GROUP_SPACING * AtLeast(reserve \div 3 - len \div 3, 0)

\* rchunks(3): the number of chunks, and how many digits the first k of them hold
\* after rev().
GroupCount(len) == (len + 2) \div 3

\* Mutant: chunks(3), from the left.
DigitsInFromLeft(k, len) == IF 3 * k <= len THEN 3 * k ELSE len

DigitsIn(k, len) == IF k = 0 THEN 0 ELSE len - 3 * (GroupCount(len) - k)

-----------------------------------------------------------------------------
(* Drawing *)

\* The byte after the last one that blit_glyph_into writes for a glyph at gx.
EndOfGlyph(gx, width) ==
    BYTES_PER_PIXEL
        * ((OFFSET_Y + GLYPH_HEIGHT - 1) * width + gx + GLYPH_WIDTH - 1)
      + BYTES_PER_PIXEL

BufferSize(width) == width * Height * BYTES_PER_PIXEL

Init ==
    \E n \in Numbers, r \in Reserves :
        /\ text = ToString[n]
        /\ reserve_width = r
        /\ drawn = 0
        /\ x = FirstX(Len(text), r)
        /\ glyphs = <<>>

\* Mutant: the kern is not left free.
BlitIntoWithoutKern(group, offset_x) ==
    glyphs' = glyphs \o [j \in DOMAIN group |->
                           [digit |-> group[j], x |-> offset_x + (j - 1) * GLYPH_WIDTH]]

\* font::blit_into: one glyph for each digit of the group, from column offset_x.
BlitInto(group, offset_x) ==
    glyphs' = glyphs \o [j \in DOMAIN group |->
                           [digit |-> group[j], x |-> offset_x + TextWidth(j - 1)]]

\* One iteration of the loop over the groups.
DrawGroup ==
    LET first == DigitsIn(drawn, Len(text))
        last  == DigitsIn(drawn + 1, Len(text))
    IN  /\ drawn < GroupCount(Len(text))
        /\ BlitInto(SubSeq(text, first + 1, last), x)
        /\ x' = x + TextWidth(last - first) + GROUP_SPACING
        /\ drawn' = drawn + 1
        /\ UNCHANGED <<text, reserve_width>>

Spec == Init /\ [][DrawGroup]_vars

\* blit_glyph_into writes a glyph's whole rectangle, its background as well.
Covers(glyph, px, py) == px - glyph.x \in Columns /\ py - OFFSET_Y \in Rows

\* Whether a pixel of the image is of the foreground: the last glyph that covers
\* it says so.
IsLit(px, py) ==
    \E k \in DOMAIN glyphs :
        /\ Covers(glyphs[k], px, py)
        /\ \A j \in k + 1..Len(glyphs) : ~Covers(glyphs[j], px, py)
        /\ IsForeground(GlyphForChar(glyphs[k].digit), py - OFFSET_Y, px - glyphs[k].x)

Rendered == drawn = GroupCount(Len(text))
ImageWidth == Width(Len(text), reserve_width)

-----------------------------------------------------------------------------
(* Properties *)

\* Every variable has its type.
TypeOK ==
    /\ text \in Seq(0..9) \ {<<>>}
    /\ reserve_width \in Nat
    /\ drawn \in Nat
    /\ x \in Nat
    /\ glyphs \in Seq([digit: 0..9, x: Nat])

\* Where the k-th digit belongs: every digit before it takes its width, and every
\* group that ended before it a space.
XOf(k) ==
    FirstX(Len(text), reserve_width) + TextWidth(k - 1)
      + GROUP_SPACING * (GroupCount(Len(text)) - GroupCount(Len(text) - k + 1))

\* The running column of the loop over groups and that of the loop over a group's
\* digits agree with one formula for the whole number, whatever the length of the
\* first group: the invariant that the proofs rest on.
Layout ==
    /\ drawn <= GroupCount(Len(text))
    /\ Len(glyphs) = DigitsIn(drawn, Len(text))
    /\ x = FirstX(Len(text), reserve_width) + TextWidth(Len(glyphs))
             + GROUP_SPACING * drawn
    /\ \A k \in DOMAIN glyphs : glyphs[k] = [digit |-> text[k], x |-> XOf(k)]

\* blit_glyph_into never indexes beyond the buffer (which would panic) and never
\* runs over the end of a row into the next one: width and first column are
\* computed with different roundings, and every glyph stays within the padding.
InBounds ==
    \A k \in DOMAIN glyphs :
        /\ EndOfGlyph(glyphs[k].x, ImageWidth) <= BufferSize(ImageWidth)
        /\ 1 <= glyphs[k].x
        /\ glyphs[k].x + GLYPH_WIDTH <= ImageWidth - 1

\* The image reads as the number: its digits are drawn in order, none over another,
\* and the gap before a digit is wider exactly where the number of digits that
\* follow, itself included, is a multiple of three.
Legible ==
    /\ Rendered => Len(glyphs) = Len(text)
    /\ \A k \in DOMAIN glyphs : glyphs[k].digit = text[k]
    /\ \A k \in DOMAIN glyphs \ {1} :
          glyphs[k].x - (glyphs[k - 1].x + GLYPH_WIDTH) =
              IF (Len(text) - k + 1) % 3 = 0
              THEN GLYPH_KERN + GROUP_SPACING ELSE GLYPH_KERN

\* The pixels at column gx are those of the bitmap of a digit.
Shows(gx, digit) ==
    \A row \in Rows, col \in Columns :
        IsLit(gx + col, OFFSET_Y + row)
            <=> IsForeground(GLYPH_BITMAPS[digit + 1], row, col)

\* The number can be read back from the pixels: where the k-th digit belongs, they
\* show that digit and could be taken for no other one.  No glyph covers a part of
\* another, no two bitmaps are alike, and each is found under its own digit.
DigitsReadable ==
    \A k \in DOMAIN glyphs : {d \in 0..9 : Shows(XOf(k), d)} = {text[k]}

\* The pixels right of the last glyph, less kern and padding.
RightMargin ==
    ImageWidth - 1 - GLYPH_KERN - (glyphs[Len(glyphs)].x + GLYPH_WIDTH)

\* Whatever the number and the reserved width, the number ends at the right edge,
\* or one group space before it when all of its groups are full.
EndsNearRightEdge ==
    Rendered =>
        RightMargin = IF Len(text) % 3 = 0 THEN GROUP_SPACING ELSE 0

\* counter.rs:51 says that the image is always the same width when a width is
\* reserved: it is that of any other number that the reservation has room for.
SameWidth ==
    Len(text) <= reserve_width =>
        \A n \in Numbers :
            Len(ToString[n]) <= reserve_width =>
                ImageWidth = Width(Len(ToString[n]), reserve_width)

\* counter.rs:72 says that the number ends up right-aligned: at the right edge.
RightAligned == Rendered => RightMargin = 0
=============================================================================
