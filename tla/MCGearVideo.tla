----------------------------- MODULE MCGearVideo -----------------------------
(***************************************************************************)
(* How a picture of the Game Gear is made and handed on, for TLC: its      *)
(* video chip (GameGearVdp), the rows that chip renders (GearPicture) and  *)
(* the mailbox that takes frames to the render lane (RealtimeVideoMailbox).*)
(* They hand each other frames and share no state, so a behaviour moves    *)
(* one of them.                                                            *)
(***************************************************************************)
EXTENDS RealtimeVideoMailbox, GameGearVdp

VARIABLE focus      \* the part that moves

\* Patterns, a name table with every flip, palette and priority, and sprites: six
\* that overlap with hidden ones between and the end of the table after them, or
\* twenty-four crowded on a few lines.
TileByte(a) == (a * 37 + (a \div 32) * 11 + (a \div 256)) % 256
NameByte(k) == IF k % 2 = 0 THEN ((k \div 2) * 5) % 256 ELSE ((k \div 2) * 3 + k \div 64) % 32
FewSprites == <<30, 27, 28, 224, 26, 39, 31, 208>>
TableByte(image, k) ==
    CASE image = "many" /\ k < 24 -> 18 + (k % 3) * 5
      [] image = "many" /\ k \in 24 .. 63 -> 224
      [] image = "few" /\ k < 8 -> FewSprites[k + 1]
      [] image = "few" /\ k \in 8 .. 63 -> 40
      [] k \in 64 .. 127 -> 0
      [] k >= 128 -> IF k % 2 = 0 THEN ((k - 128) * 2 + 45) % 256 ELSE (k * 7) % 256
ImageByte(image, a) ==
    CASE a < 14336 -> TileByte(a)
      [] a \in 14336 .. 16127 -> NameByte(a - 14336)
      [] OTHER -> TableByte(image, a - 16128)

\* As a ROM leaves them that has switched the screen on, in mode 4.
Registers ==
    [r \in 0 .. 10 |->
        CASE r = 0 -> 4 [] r = 1 -> 64 [] r \in {2, 5, 6} -> 255 [] r = 8 -> 3 [] OTHER -> 0]
TwoImages ==
    [image : {"few", "many"}, regs : {Registers}, scroll : {0}, sms : BOOLEAN]
BothSizes == {[width |-> 160, height |-> 144], [width |-> 256, height |-> 192]}
Writes ==
    {<<0, r>> : r \in {0, 2, 6, 12, 36, 68, 132}} \cup {<<1, r>> : r \in {0, 65, 66, 67, 80}}
      \cup {<<4, 255>>} \cup {<<8, r>> : r \in {0, 16, 21}} \cup {<<9, r>> : r \in {3, 8, 230}}

\* A chip with lines of fourteen cycles, seven of them, of which three, four or five
\* show a picture; one line overflows, one has a collision.
FewActiveLines == (192 :> 3) @@ (224 :> 4) @@ (240 :> 5)
FewCounterTop == (192 :> 4) @@ (224 :> 5) @@ (240 :> 5)
LineSprites ==
    [l \in 0 .. 9 |-> CASE l = 1 -> {"overflow"} [] l = 2 -> {"collision"} [] OTHER -> {}]
ControlBytes == {<<0, 192>>, <<1, 0>>, <<96, 129, 16, 128>>}

PartsInit ==
    /\ focus \in {"mailbox", "picture", "chip"}
    /\ Init
    /\ PictureInit
    /\ focus # "picture" => /\ screen = CHOOSE s \in Screens : TRUE
                            /\ view = CHOOSE v \in Views : TRUE
                            /\ row = CHOOSE y \in Rows : TRUE
    /\ VdpInit
    /\ focus # "chip" => chip.buffer = 0 /\ chip.mode = 3

\* Every part but p stays as it is.
OthersStay(p) ==
    /\ IF p = "mailbox" THEN TRUE ELSE UNCHANGED vars
    /\ IF p = "picture" THEN TRUE ELSE UNCHANGED pictureVars
    /\ IF p = "chip" THEN TRUE ELSE UNCHANGED vdpVars

PartsNext ==
    /\ UNCHANGED focus
    /\ \/ focus = "mailbox" /\ Next /\ OthersStay("mailbox")
       \/ focus = "picture" /\ PictureNext /\ OthersStay("picture")
       \/ focus = "chip" /\ VdpNext /\ OthersStay("chip")

partsVars == <<focus, vars, pictureVars, vdpVars>>

\* RealtimeVideoMailbox's Fairness, in the behaviours that are about it.
PartsFairness ==
    /\ WF_vars(focus = "mailbox" /\ (PublishWritten \/ PublishExchange))
    /\ WF_vars(focus = "mailbox" /\ Consume)

PartsSpec == PartsInit /\ [][PartsNext]_partsVars /\ PartsFairness

-----------------------------------------------------------------------------
\* The rows the Game Gear's chip renders are those its tables say, with the sprites
\* the program is told of, and the debug model says the same as the picture
\* (GameGearVDP.cpp renderFramePixels, evaluateScanlineStatus, buildFrameModel).
\* Where another part moves, the screen is such and stays.
PictureRight == focus = "picture" => BackgroundRight /\ SpritesAsReported /\ SamplesTrue
=============================================================================
