-------------------------------- MODULE Font --------------------------------
(***************************************************************************)
(* Module font of src/src/counter.rs: the bitmaps of the ten digits, their *)
(* measures and the lookup of one.                                         *)
(***************************************************************************)
EXTENDS Integers, Sequences

GLYPH_WIDTH == 8
GLYPH_HEIGHT == 16
GLYPH_KERN == 1
GLYPH_COUNT == 10

\* The rows of each digit from 0 to 9, a byte for a row: its highest bit is the
\* leftmost pixel, and is set for the foreground.
GLYPH_BITMAPS == <<
    <<\h18,\h3C,\h66,\h42,\hC3,\hC3,\hC3,\hCB,\hD3,\hC3,\hC3,\hC3,\h42,\h66,\h3C,\h18>>,
    <<\h18,\h38,\h78,\hD8,\h98,\h18,\h18,\h18,\h18,\h18,\h18,\h18,\h18,\h18,\hFF,\hFF>>,
    <<\h18,\h7C,\h66,\hC3,\hC3,\h03,\h06,\h06,\h0C,\h0C,\h18,\h18,\h30,\h70,\hFF,\hFF>>,
    <<\h18,\h7E,\hE6,\hC3,\h03,\h03,\h06,\h1C,\h1C,\h06,\h03,\h03,\hC3,\hE6,\h7E,\h18>>,
    <<\h06,\h0E,\h1E,\h16,\h36,\h66,\h66,\hC6,\hFF,\hFF,\h06,\h06,\h06,\h06,\h0F,\h0F>>,
    <<\hFE,\hFE,\hC0,\hC0,\hC0,\hC0,\hDC,\hFE,\h46,\h03,\h03,\h03,\hC3,\hE6,\h7C,\h18>>,
    <<\h18,\h7E,\h66,\hC0,\hC0,\hC0,\hD8,\hFE,\hE6,\hC3,\hC3,\hC3,\h42,\h66,\h7E,\h18>>,
    <<\hFF,\hFF,\h03,\h03,\h06,\h06,\h0C,\h0C,\h3E,\h3E,\h18,\h18,\h18,\h18,\h18,\h18>>,
    <<\h18,\h7E,\h66,\h42,\hC3,\hC3,\h66,\h7E,\h3C,\h66,\hE7,\hC3,\hC3,\h66,\h7E,\h18>>,
    <<\h18,\h7E,\h66,\h42,\hC3,\hC3,\hC3,\h67,\h7F,\h1B,\h03,\h03,\h03,\h66,\h7E,\h18>>
>>

\* Rows and columns are counted from 0.
Rows == 0..GLYPH_HEIGHT - 1
Columns == 0..GLYPH_WIDTH - 1

\* Whether the pixel of a glyph is of the foreground.
IsForeground(glyph, row, col) ==
    (glyph[row + 1] \div 2 ^ (GLYPH_WIDTH - 1 - col)) % 2 = 1

\* No two digits look alike.
ASSUME GlyphsAssumption ==
    \A d, e \in 0..9 :
        (\A row \in Rows, col \in Columns :
            IsForeground(GLYPH_BITMAPS[d + 1], row, col)
                <=> IsForeground(GLYPH_BITMAPS[e + 1], row, col)) => d = e

\* Mutant: the index is taken from the wrong end of the digits.
GlyphForCharFromOne(digit) ==
    GLYPH_BITMAPS[IF digit = 0 THEN GLYPH_COUNT ELSE digit]

\* glyph_for_char: c as usize - '0' as usize.
GlyphForChar(digit) == GLYPH_BITMAPS[digit + 1]

\* text_size, the width
TextWidth(char_count) == char_count * (GLYPH_WIDTH + GLYPH_KERN)
=============================================================================
