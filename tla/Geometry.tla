-------------------------------- MODULE Geometry --------------------------------
(***************************************************************************)
(* The sizes both sides of the format derive on their own.  encode halves  *)
(* the luma and the chroma plane until the shorter side is small enough    *)
(* and writes the number of luma levels and the two base sizes;            *)
(* decode_v2 walks down again from the image size: by the number of levels *)
(* for luma, and for subsampled chroma until the stored base size is met.  *)
(***************************************************************************)
EXTENDS Integers, Sequences

CONSTANTS Widths, Heights,  \* the image sizes
          Targets           \* EncodeOptions::base_target, 0 for the default

MaxDimension == 16384   \* kMaxDimension: encode refuses larger images
MaxLevels == 16         \* levels > 16 is rejected, and so is a longer chroma walk

ASSUME GeometryAssumption == /\ Widths \subseteq 1 .. MaxDimension
                             /\ Heights \subseteq 1 .. MaxDimension
                             /\ Targets \subseteq Nat

VARIABLES phase,       \* the loop that is running, "accepted" or "rejected"
          w, h,        \* the image
          target,      \* base_target
          subsampled,  \* chroma is coded at half size
          cur,         \* the size the loop has reached
          luma,        \* BandPyramid::levels of channel 0: the sizes, finest first
          chroma,      \* the same of channels 1 and 2
          header,      \* what the stream says of them
          shapes0,     \* decode_v2's sizes for luma
          shapes1      \* and for chroma

sizesVars == <<phase, w, h, target, subsampled, cur, luma, chroma, header, shapes0, shapes1>>
encVars == <<w, h, target, subsampled, luma, chroma, header>>

Half(s) == [w |-> (s.w + 1) \div 2, h |-> (s.h + 1) \div 2]
Shorter(s) == IF s.w < s.h THEN s.w ELSE s.h
Image == [w |-> w, h |-> h]

\* The plane of channels 1 and 2: downsample_2x halves it below the 4:4:4 qualities.
\* Mutant: its size is rounded down.
ChromaImageFloor == IF subsampled THEN [w |-> w \div 2, h |-> h \div 2] ELSE Image

ChromaImage == IF subsampled THEN Half(Image) ELSE Image

\* safe_base_target doubles 32 once if the shorter side allows it.
SafeBaseTarget(s) == IF 64 <= Shorter(s) THEN 64 ELSE 32

\* Mutant: the chroma planes are not given the requested target.
TargetForLuma(s) == IF target # 0 /\ s = Image THEN target ELSE SafeBaseTarget(s)

\* build_band_pyramid fixes the target before its loop, from the whole plane.
TargetFor(s) == IF target # 0 THEN target ELSE SafeBaseTarget(s)

\* Mutant: the longer side decides.
SplitsLonger(s, whole) == s.w > TargetFor(whole) \/ s.h > TargetFor(whole)

Splits(s, whole) == /\ Shorter(s) > TargetFor(whole)
                    /\ s.w > 1 /\ s.h > 1

--------------------------------------------------------------------------------
SizesInit == /\ phase = "luma"
             /\ w \in Widths
             /\ h \in Heights
             /\ target \in Targets
             /\ subsampled \in BOOLEAN
             /\ cur = Image
             /\ luma = <<>>
             /\ chroma = <<>>
             /\ header = <<>>
             /\ shapes0 = <<>>
             /\ shapes1 = <<>>

\* One turn of the loop of build_band_pyramid.
SplitLuma == /\ phase = "luma"
             /\ Splits(cur, Image)
             /\ luma' = Append(luma, cur)
             /\ cur' = Half(cur)
             /\ UNCHANGED <<phase, w, h, target, subsampled, chroma, header, shapes0, shapes1>>

LumaBuilt == /\ phase = "luma"
             /\ ~Splits(cur, Image)
             /\ phase' = "chroma"
             /\ cur' = ChromaImage
             /\ header' = [levels |-> Len(luma), base |-> cur, subsampled |-> subsampled]
             /\ UNCHANGED <<w, h, target, subsampled, luma, chroma, shapes0, shapes1>>

SplitChroma == /\ phase = "chroma"
               /\ Splits(cur, ChromaImage)
               /\ chroma' = Append(chroma, cur)
               /\ cur' = Half(cur)
               /\ UNCHANGED <<phase, w, h, target, subsampled, luma, header, shapes0, shapes1>>

\* The header is written, and decode_v2 starts with its checks.
ChromaBuilt == /\ phase = "chroma"
               /\ ~Splits(cur, ChromaImage)
               /\ header' = [levels |-> header.levels, base |-> header.base,
                             subsampled |-> header.subsampled, chromaBase |-> cur]
               /\ phase' = IF header.levels > MaxLevels THEN "rejected" ELSE "walk luma"
               /\ cur' = Image
               /\ UNCHANGED <<w, h, target, subsampled, luma, chroma, shapes0, shapes1>>

\* One turn of the loop of walk_shapes.
WalkLuma == /\ phase = "walk luma"
            /\ Len(shapes0) < header.levels
            /\ shapes0' = Append(shapes0, cur)
            /\ cur' = Half(cur)
            /\ UNCHANGED <<encVars, phase, shapes1>>

\* Mutant: the chroma walk starts from the size of the image.
LumaWalkedFullChroma == /\ phase = "walk luma"
                        /\ Len(shapes0) = header.levels
                        /\ phase' = "walk chroma"
                        /\ cur' = Image
                        /\ UNCHANGED <<encVars, shapes0, shapes1>>

\* At 4:4:4 the chroma arrays are those of luma.
LumaWalked == /\ phase = "walk luma"
              /\ Len(shapes0) = header.levels
              /\ IF cur # header.base
                   THEN phase' = "rejected" /\ UNCHANGED <<cur, shapes1>>
                 ELSE IF header.subsampled
                   THEN phase' = "walk chroma" /\ cur' = Half(Image) /\ UNCHANGED shapes1
                 ELSE phase' = "accepted" /\ shapes1' = shapes0 /\ UNCHANGED cur
              /\ UNCHANGED <<encVars, shapes0>>

\* One turn of the loop that looks for the chroma base.
WalkChroma ==
  /\ phase = "walk chroma"
  /\ cur # header.chromaBase
  /\ IF \/ cur.w <= 1 \/ cur.h <= 1
        \/ Len(shapes1) >= MaxLevels
        \/ Half(cur).w < header.chromaBase.w \/ Half(cur).h < header.chromaBase.h
       THEN phase' = "rejected" /\ UNCHANGED <<cur, shapes1>>
       ELSE shapes1' = Append(shapes1, cur) /\ cur' = Half(cur) /\ UNCHANGED phase
  /\ UNCHANGED <<encVars, shapes0>>

ChromaWalked == /\ phase = "walk chroma"
                /\ cur = header.chromaBase
                /\ phase' = "accepted"
                /\ UNCHANGED <<encVars, cur, shapes0, shapes1>>

SizesNext == \/ SplitLuma \/ LumaBuilt \/ SplitChroma \/ ChromaBuilt
             \/ WalkLuma \/ LumaWalked \/ WalkChroma \/ ChromaWalked

SizesSpec == SizesInit /\ [][SizesNext]_sizesVars

--------------------------------------------------------------------------------
Size == [w : Nat \ {0}, h : Nat \ {0}]

\* Every size is that of a plane with at least one sample, and a level that is split
\* has at least two rows and two columns: forward_line is never given a line of one.
SizesTypeOK == /\ phase \in {"luma", "chroma", "walk luma", "walk chroma", "accepted", "rejected"}
               /\ cur \in Size
               /\ luma \in Seq(Size) /\ chroma \in Seq(Size)
               /\ shapes0 \in Seq(Size) /\ shapes1 \in Seq(Size)
               /\ \A k \in DOMAIN luma : luma[k].w > 1 /\ luma[k].h > 1
               /\ \A k \in DOMAIN chroma : chroma[k].w > 1 /\ chroma[k].h > 1

\* The decoder accepts the sizes of every stream the encoder writes.
NeverRejected == phase # "rejected"

\* The decoder gives every channel the levels the encoder gave it, level by level:
\* the size of a band is never stored, only compared with these.
ShapesAgree == phase = "accepted" => shapes0 = luma /\ shapes1 = chroma

\* Chroma never has more levels than luma.  The header has one count, that of luma,
\* and a chunk on a higher layer is rejected as invalid.
ChromaNotDeeper == phase \in {"walk luma", "walk chroma", "accepted"} => Len(chroma) <= Len(luma)
================================================================================
