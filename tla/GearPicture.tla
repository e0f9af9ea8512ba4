----------------------------- MODULE GearPicture -----------------------------
(***************************************************************************)
(* The picture GameGearVDP renders: one row of a frame, by the path its    *)
(* registers choose, with the sprites over it, and the sprite status that  *)
(* the program reads of the same line.                                     *)
(*                                                                         *)
(* A pixel is a palette index and what the debug model says it is a sample *)
(* of.  Rows share nothing but the count of sprites, so a frame is its     *)
(* rows.  Video memory is a given function; colours are GameGearVdp's.     *)
(***************************************************************************)
EXTENDS Integers, Sequences, FiniteSets, SequencesExt

CONSTANTS
    VramByte(_, _),      \* the byte of an image at an address
    Screens,             \* what is on the chip to begin with
    Views,               \* sizes of frame that are asked for
    RegisterWrites,      \* <<register, value>> the program writes
    MaxRegisterWrites,
    Rows                 \* rows looked at

VARIABLES
    screen,     \* image, registers, vertical scroll latch, Master System mode
    view,       \* width and height of the frame
    row,        \* the row being rendered
    written     \* number of register writes

pictureVars == <<screen, view, row, written>>

LOCAL Has(f, bit) == (f \div bit) % 2 = 1

Vram(s, address) == VramByte(s.image, address % 16384)
-----------------------------------------------------------------------------
(* What the registers mean.                                                *)

DisplayEnabled(s) == Has(s.regs[1], 64)
Mode4(s) == Has(s.regs[0], 4)
TallSprites(s) == Has(s.regs[1], 2)
Zoom(s) == IF Has(s.regs[1], 1) THEN 2 ELSE 1

DisplayLines(s) ==
    LET m1 == Has(s.regs[1], 16)
        m3 == Has(s.regs[1], 8)
        tall == s.sms /\ Mode4(s) /\ Has(s.regs[0], 2)
    IN  CASE tall /\ m1 /\ ~m3 -> 224
          [] tall /\ m3 /\ ~m1 -> 240
          [] OTHER -> 192

NameTableBase(s) ==
    IF Mode4(s) /\ DisplayLines(s) # 192
    THEN 1792 + ((s.regs[2] \div 4) % 4) * 4096
    ELSE ((s.regs[2] \div 2) % 8) * 2048

SpriteTableBase(s) ==
    IF s.regs[5] = 0 THEN 16128 ELSE ((s.regs[5] \div 2) % 64) * 256

SpriteGeneratorBase(s) == IF Has(s.regs[6], 4) THEN 8192 ELSE 0

\* The part of the chip's screen that a frame of the LCD's size shows.
ViewportX == IF view.width = 160 THEN 48 ELSE 0
ViewportY == IF view.height = 144 THEN 24 ELSE 0

Backdrop(s) == [index |-> 16 + (s.regs[7] % 16), of |-> "nothing", tile |-> 0,
                x |-> 0, y |-> 0, priority |-> FALSE]
-----------------------------------------------------------------------------
(* Patterns and the background of mode 4.                                  *)

SamplePatternColor(s, base, tile, x, y) ==
    LET address == base + tile * 32 + (y % 8) * 4
        plane(p) == (Vram(s, address + p) \div 2^(7 - (x % 8))) % 2
    IN  plane(0) + 2 * plane(1) + 4 * plane(2) + 8 * plane(3)

BackgroundTileEntry(s, tileX, tileY) ==
    LET index == NameTableBase(s)
                 + ((tileY % (IF DisplayLines(s) = 192 THEN 28 ELSE 32)) * 32 + tileX) * 2
        high == Vram(s, index + 1)
    IN  IF index + 1 >= 16384
        THEN [tile |-> 0, flipH |-> FALSE, flipV |-> FALSE, palette |-> 0, priority |-> FALSE]
        ELSE [tile |-> Vram(s, index) + 256 * (high % 2), flipH |-> Has(high, 2),
              flipV |-> Has(high, 4), palette |-> (high \div 8) % 2, priority |-> Has(high, 16)]

ScrolledY(s, vdpY, scroll) ==
    CASE DisplayLines(s) # 192 -> (vdpY + scroll) % 256
      [] scroll > 223 -> (vdpY + (scroll % 32)) % 256
      [] OTHER -> (vdpY + scroll) % 224

\* The pixel at place x, y of a tile, whose row y shows the colours given.
TilePixel(entry, colors, x, y) ==
    LET sampleX == IF entry.flipH THEN 7 - x ELSE x
    IN  [index |-> 16 * entry.palette + colors[sampleX], of |-> "background",
         tile |-> entry.tile, x |-> sampleX, y |-> y,
         priority |-> entry.priority /\ colors[sampleX] # 0]

SampleRow(entry, pixelY) == IF entry.flipV THEN 7 - pixelY ELSE pixelY

PatternRow(s, tile, y) == [x \in 0 .. 7 |-> SamplePatternColor(s, 0, tile, x, y)]

\* Mutant: the simple path is taken with a scroll of less than a tile.
SimplePathEligible_FineScroll(s) ==
    /\ ~s.sms
    /\ ~Has(s.regs[0], 128) /\ ~Has(s.regs[0], 32)
    /\ ~(DisplayLines(s) = 192 /\ s.scroll > 223)

\* mode4SimpleBackgroundPathEligible
SimplePathEligible(s) ==
    /\ ~s.sms
    /\ s.regs[8] % 8 = 0
    /\ ~Has(s.regs[0], 128) /\ ~Has(s.regs[0], 32)
    /\ ~(DisplayLines(s) = 192 /\ s.scroll > 223)

SimpleRow(s) ==
    LET scrolledY == ScrolledY(s, row + ViewportY, s.scroll)
        starting == (32 - s.regs[8] \div 8) % 32
    IN  [x \in 0 .. view.width - 1 |->
            LET scrolledX == (x + ViewportX) % 256
                entry == BackgroundTileEntry(s, (starting + scrolledX \div 8) % 32, scrolledY \div 8)
                y == SampleRow(entry, scrolledY % 8)
            IN  TilePixel(entry, PatternRow(s, entry.tile, y), scrolledX % 8, y)]
-----------------------------------------------------------------------------
(* The general path goes through a row in runs, each the visible part of a *)
(* tile, and keeps by column of the name table the entry it decoded last   *)
(* (with its row) and the pattern row it decoded last (with its number).   *)

NoEntryRow == -1
EmptyCaches == [entryRow |-> [c \in 0 .. 31 |-> NoEntryRow], entry |-> <<>>,
                sample |-> [c \in 0 .. 31 |-> -1], colors |-> <<>>]

Segment(from, to, scroll) == [from |-> from, to |-> to, scroll |-> scroll]

EffectiveScrollX(s) ==
    IF s.sms /\ Has(s.regs[0], 64) /\ row + ViewportY < 16 THEN 0 ELSE s.regs[8]

\* Fixed right columns are a second segment, which does not scroll vertically.
Segments(s) ==
    LET split == CHOOSE x \in {192 - ViewportX, view.width} :
                    x <= 192 - ViewportX /\ x <= view.width
    IN  IF Has(s.regs[0], 128)
        THEN <<Segment(0, split, s.scroll), Segment(split, view.width, 0)>>
        ELSE <<Segment(0, view.width, s.scroll)>>

\* Where the runs of a segment begin, from left to right.
RunStarts(s, segment) ==
    LET fine == EffectiveScrollX(s) % 8
        blankUntil == IF Has(s.regs[0], 32) THEN 8 - ViewportX ELSE 0
        visible(x) == x >= segment.from /\ x >= blankUntil /\ x >= fine - ViewportX
    IN  SelectSeq([x \in 1 .. segment.to |-> x - 1],
                  LAMBDA x : visible(x) /\ (~visible(x - 1) \/ (x + ViewportX - fine) % 8 = 0))

\* The caches once column's entry for tileY and its row pixelY are in them.
EntryCached(s, caches, column, tileY) ==
    IF caches.entryRow[column] = tileY THEN caches
    ELSE [caches EXCEPT !.entryRow[column] = tileY,
                        !.entry = (column :> BackgroundTileEntry(s, column, tileY)) @@ @]

PatternCached(s, caches, column, pixelY) ==
    LET y == SampleRow(caches.entry[column], pixelY)
    IN  IF caches.sample[column] = y THEN caches
        ELSE [caches EXCEPT !.sample[column] = y,
                            !.colors = (column :> PatternRow(s, caches.entry[column].tile, y)) @@ @]

RenderRun(s, segment, drawn, x) ==
    LET fine == EffectiveScrollX(s) % 8
        scrolledY == ScrolledY(s, row + ViewportY, segment.scroll)
        scrolledX == (x + ViewportX - fine) % 256
        column == (32 - EffectiveScrollX(s) \div 8 + scrolledX \div 8) % 32
        caches == PatternCached(s, EntryCached(s, drawn.caches, column, scrolledY \div 8),
                                column, scrolledY % 8)
        entry == caches.entry[column]
        end == IF x + 8 - (scrolledX % 8) <= segment.to THEN x + 8 - (scrolledX % 8) ELSE segment.to
    IN  [caches |-> caches,
         pixels |-> [p \in x .. end - 1 |->
                        TilePixel(entry, caches.colors[column], (scrolledX % 8) + p - x,
                                  SampleRow(entry, scrolledY % 8))] @@ drawn.pixels]

RenderGeneralSegment(s, drawn, segment) ==
    FoldLeft(LAMBDA d, x : RenderRun(s, segment, d, x), drawn,
             RunStarts(s, segment))

GeneralRow(s) ==
    FoldLeft(LAMBDA d, segment : RenderGeneralSegment(s, d, segment),
             [caches |-> EmptyCaches, pixels |-> [x \in 0 .. view.width - 1 |-> Backdrop(s)]],
             Segments(s)).pixels
-----------------------------------------------------------------------------
(* The graphics mode of the TMS9918, which has a colour per pattern row.   *)

TmsRow(s) ==
    LET vdpY == row + ViewportY
        tileY == (vdpY \div 8) % 24
        bank == (tileY \div 8) * 2048
        names == ((s.regs[2] \div 2) % 8) * 2048
        patterns == IF Has(s.regs[4], 4) THEN 8192 ELSE 0
        colors == IF Has(s.regs[3], 128) THEN 8192 ELSE 0
    IN  [x \in 0 .. view.width - 1 |->
            LET vdpX == IF view.width = 160 THEN 8 + (x * 240) \div 160 ELSE x
                offset == bank + Vram(s, names + tileY * 32 + ((vdpX \div 8) % 32)) * 8 + (vdpY % 8)
                pattern == Vram(s, patterns + offset)
                color == Vram(s, colors + offset)
                code == IF Has(pattern, 2^(7 - (vdpX % 8))) THEN color \div 16 ELSE color % 16
            IN  IF code = 0 THEN Backdrop(s) ELSE [Backdrop(s) EXCEPT !.index = 16 + code]]
-----------------------------------------------------------------------------
(* Sprites.                                                                *)

SpriteY(s, n) == Vram(s, SpriteTableBase(s) + n) + 1
SpriteX(s, n) ==
    Vram(s, SpriteTableBase(s) + 128 + 2 * n) - (IF Has(s.regs[0], 8) THEN 8 ELSE 0)
SpriteTile(s, n) ==
    LET tile == Vram(s, SpriteTableBase(s) + 129 + 2 * n)
    IN  IF TallSprites(s) THEN tile - (tile % 2) ELSE tile
SpriteHeight(s) == (IF TallSprites(s) THEN 16 ELSE 8) * Zoom(s)

\* The table's sprites up to the one that ends it, without the hidden ones.
ListedSprites(s) ==
    LET ends == {n \in 0 .. 63 : DisplayLines(s) = 192 /\ SpriteY(s, n) = 209}
        last == IF ends = {} THEN 63 ELSE (CHOOSE n \in ends : \A m \in ends : n <= m) - 1
    IN  SelectSeq([i \in 1 .. last + 1 |-> i - 1], LAMBDA n : SpriteY(s, n) # 225)

FirstOf(sprites, count) == SubSeq(sprites, 1, IF Len(sprites) < count THEN Len(sprites) ELSE count)

Covers(s, n, line) == SpriteY(s, n) <= line /\ line < SpriteY(s, n) + SpriteHeight(s)

\* The probe whether a frame has any sprite at all.
HasVisibleSprites(s) ==
    \E i \in DOMAIN FirstOf(ListedSprites(s), 40) :
        LET y == SpriteY(s, ListedSprites(s)[i])
        IN  y + SpriteHeight(s) > ViewportY /\ y < ViewportY + view.height

\* The sprites drawn in the row: eight of those on it, among the first forty that
\* lie within the frame's columns.
SpritesOfRow(s) ==
    LET within == SelectSeq(ListedSprites(s),
                            LAMBDA n : /\ SpriteX(s, n) - ViewportX + 8 * Zoom(s) > 0
                                       /\ SpriteX(s, n) - ViewportX < view.width)
    IN  FirstOf(SelectSeq(FirstOf(within, 40), LAMBDA n : Covers(s, n, row + ViewportY)), 8)

\* Sprite n's sample at x of the frame; x is one of its columns.
SpriteSample(s, n, x) ==
    LET py == row + ViewportY - SpriteY(s, n)
        sampleX == (x - (SpriteX(s, n) - ViewportX)) \div Zoom(s)
        sampleY == (py \div Zoom(s)) % 8
        tile == SpriteTile(s, n) + (IF TallSprites(s) /\ py >= 8 THEN 1 ELSE 0)
    IN  [index |-> 16 + SamplePatternColor(s, SpriteGeneratorBase(s), tile, sampleX, sampleY),
         of |-> "sprite", tile |-> tile, x |-> sampleX, y |-> sampleY, priority |-> FALSE]

InColumns(s, n, x) ==
    LET left == SpriteX(s, n) - ViewportX IN left <= x /\ x < left + 8 * Zoom(s)

OverlaySprites(s, background) ==
    LET sprites == SpritesOfRow(s)
    IN  [x \in DOMAIN background |->
            LET opaque == {i \in DOMAIN sprites :
                              InColumns(s, sprites[i], x) /\ SpriteSample(s, sprites[i], x).index # 16}
            IN  IF background[x].priority \/ opaque = {} THEN background[x]
                ELSE SpriteSample(s, sprites[CHOOSE i \in opaque : \A j \in opaque : i <= j], x)]

\* renderFramePixels, of a row.
Rendered(s) ==
    LET background == IF SimplePathEligible(s) THEN SimpleRow(s) ELSE GeneralRow(s)
    IN  CASE ~DisplayEnabled(s) -> [x \in 0 .. view.width - 1 |-> Backdrop(s)]
          [] DisplayEnabled(s) /\ ~Mode4(s) /\ Has(s.regs[0], 2) -> TmsRow(s)
          [] OTHER -> IF HasVisibleSprites(s) THEN OverlaySprites(s, background) ELSE background

\* What the program is told of the sprites on a line (evaluateScanlineStatus).
CoveringSprites(s, line) == SelectSeq(ListedSprites(s), LAMBDA n : Covers(s, n, line))

SpriteColor(s, n, line, x) ==
    LET y == (line - SpriteY(s, n)) \div Zoom(s)
        tile == SpriteTile(s, n) + (IF TallSprites(s) /\ y >= 8 THEN 1 ELSE 0)
    IN  SamplePatternColor(s, SpriteGeneratorBase(s), tile, (x - SpriteX(s, n)) \div Zoom(s), y % 8)

ScanlineStatus(s, line) ==
    LET sprites == CoveringSprites(s, line)
        occupied(n) == {x \in SpriteX(s, n) .. SpriteX(s, n) + 8 * Zoom(s) - 1 :
                           x \in 0 .. 255 /\ SpriteColor(s, n, line, x) # 0}
    IN  [overflow |-> Len(sprites) > 8,
         collision |-> \E i, j \in DOMAIN sprites :
                          i < j /\ occupied(sprites[i]) \cap occupied(sprites[j]) # {}]
-----------------------------------------------------------------------------
\* The program writes a register while the screen is dark: the vertical scroll is
\* taken over at once.
WriteRegister(r, v) ==
    /\ written < MaxRegisterWrites
    /\ written' = written + 1
    /\ screen' = [screen EXCEPT !.regs[r] = v, !.scroll = IF r = 9 THEN v ELSE @]
    /\ UNCHANGED <<view, row>>

RenderRow(y) ==
    /\ y < view.height /\ y # row
    /\ row' = y
    /\ UNCHANGED <<screen, view, written>>

PictureInit ==
    /\ screen \in Screens
    /\ view \in Views
    /\ row \in Rows
    /\ written = 0

PictureNext ==
    \/ \E write \in RegisterWrites : WriteRegister(write[1], write[2])
    \/ \E y \in Rows : RenderRow(y)

PictureSpec == PictureInit /\ [][PictureNext]_pictureVars
-----------------------------------------------------------------------------
(* What the picture should be.                                             *)

\* The background at column x of the row, without runs and caches.
DirectPixel(s, x) ==
    LET vdpX == x + ViewportX
        fine == EffectiveScrollX(s) % 8
        scroll == IF Has(s.regs[0], 128) /\ vdpX >= 192 THEN 0 ELSE s.scroll
        scrolledY == ScrolledY(s, row + ViewportY, scroll)
        scrolledX == (vdpX - fine) % 256
        column == (32 - EffectiveScrollX(s) \div 8 + scrolledX \div 8) % 32
        entry == BackgroundTileEntry(s, column, scrolledY \div 8)
        y == SampleRow(entry, scrolledY % 8)
    IN  IF vdpX < fine \/ (Has(s.regs[0], 32) /\ vdpX < 8) THEN Backdrop(s)
        ELSE TilePixel(entry, PatternRow(s, entry.tile, y), scrolledX % 8, y)

\* The columns right of the split whose tile began left of it.
Straddles(s, x) ==
    /\ Has(s.regs[0], 128)
    /\ x + ViewportX \in 192 .. 191 + (EffectiveScrollX(s) % 8)
\* Whatever scrolls, the background is the one the name table says, but for a tile
\* that straddles the fixed columns; and where both paths apply they agree
\* (GameGearVDP.cpp renderFramePixels, mode4SimpleBackgroundPathEligible).
BackgroundRight ==
    LET general == GeneralRow(screen)
    IN  /\ \A x \in DOMAIN general :
              general[x] # DirectPixel(screen, x) => Straddles(screen, x)
        /\ SimplePathEligible(screen) => SimpleRow(screen) = general

\* On a line where the program is told of no overflow, each column shows the first
\* listed sprite that is opaque there, as the collision test sees sprites, and two
\* of them drawn at one place are a collision.  Left out: tables of more than forty
\* sprites, and sprites both tall and zoomed, whose lower halves are drawn from the
\* ninth row on and compared from the seventeenth (evaluateScanlineStatus against
\* the overlay of renderFramePixels).
SpritesAsReported ==
    LET line == row + ViewportY
        status == ScanlineStatus(screen, line)
        sprites == CoveringSprites(screen, line)
        blank == [x \in 0 .. view.width - 1 |-> Backdrop(screen)]
        drawn == OverlaySprites(screen, blank)
        opaque(x) == {i \in DOMAIN sprites :
                         /\ InColumns(screen, sprites[i], x)
                         /\ SpriteColor(screen, sprites[i], line, x + ViewportX) # 0}
    IN  Len(ListedSprites(screen)) <= 40 /\ ~(TallSprites(screen) /\ Zoom(screen) = 2) =>
          /\ (\E x \in DOMAIN drawn : drawn[x] # blank[x]) => HasVisibleSprites(screen)
          /\ ~status.overflow =>
                \A x \in DOMAIN drawn :
                    /\ opaque(x) = {} => drawn[x] = blank[x]
                    /\ opaque(x) # {} =>
                          drawn[x].index = 16 + SpriteColor(screen,
                             sprites[CHOOSE i \in opaque(x) : \A j \in opaque(x) : i <= j], line, x + ViewportX)
                    /\ Cardinality(opaque(x)) > 1 => status.collision

\* What the debug model says a pixel is a sample of is what its colour comes from,
\* but for the columns that straddle the split (buildFrameModel).
SamplesTrue ==
    LET shown == Rendered(screen)
        code(p) == SamplePatternColor(screen, IF p.of = "sprite" THEN SpriteGeneratorBase(screen) ELSE 0,
                                      p.tile, p.x, p.y)
    IN  \A x \in DOMAIN shown :
            shown[x].of # "nothing" /\ ~Straddles(screen, x) => shown[x].index % 16 = code(shown[x])
=============================================================================
