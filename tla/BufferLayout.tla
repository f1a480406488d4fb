---------------------------- MODULE BufferLayout ----------------------------
(***************************************************************************)
(* How large gralloc makes a buffer, and where in it the planes are that it *)
(* tells its clients about.  The two are computed by different functions,   *)
(* at different times, from different sizes: the allocation from the size   *)
(* asked for, the planes from the aligned size the handle keeps, or from    *)
(* the CROP rectangle of the metadata.                                      *)
(*                                                                         *)
(* Linear YUV and raw formats, and RGB formats with and without UBWC.  The  *)
(* camera library is not loaded, the GPU is not the only user.              *)
(***************************************************************************)
EXTENDS Naturals, Sequences

CONSTANTS Widths, Heights, PageSize,
          GpuAlignment   \* AdrenoMemInfo::GetGpuPixelAlignment

VARIABLE query   \* what is asked, or << >>

blVars == <<query>>

\* Formats, and of the RGB formats the bytes of a pixel.
Bpp == [RGBA_FP16 |-> 8, RGBA_8888 |-> 4, RGB_888 |-> 3, BGR_565 |-> 2, R_8 |-> 1]
Rgb == DOMAIN Bpp
Ubwc == {"RGBA_FP16", "RGBA_8888", "BGR_565"}
Sp == {"YCbCr_420_SP", "YCRCB_420_SP", "NV21_ZSL", "YCbCr_420_SP_VENUS", "YCrCb_420_SP_VENUS",
       "NV12_HEIF", "YCrCb_420_SP_ADRENO", "YCBCR_422_SP"}
LumaOnly == {"Y8", "Y16"}
Raw == {"RAW8", "RAW10", "RAW12", "RAW16"}
Formats == Rgb \cup Sp \cup LumaOnly \cup Raw \cup {"YCbCr_420_P010", "YV12", "CbYCrY_422_I"}

\* The usage flags the code looks at.
Usages == {"heif", "adreno", "ubwc", "overlay", "protected", "secure"}

Align(x, a) == ((x + a - 1) \div a) * a

-----------------------------------------------------------------------------
(* mmm_color_fmt.h, which is not in the repository: strides and heights.    *)

MmmWide(f, usage) ==
  f = "NV12_HEIF" \/ ("heif" \in usage /\ f \in {"YCbCr_420_SP_VENUS", "YCbCr_420_P010"})
MmmStride(f, usage, w) ==
  LET bytes == IF f = "YCbCr_420_P010" THEN 2 * w ELSE w
  IN Align(bytes, IF MmmWide(f, usage) THEN 512 ELSE IF f = "YCbCr_420_P010" THEN 256 ELSE 128)
MmmRows(f, usage, h) == Align(h, IF MmmWide(f, usage) THEN 512 ELSE 32)
MmmChromaRows(f, usage, h) == Align((h + 1) \div 2, IF MmmWide(f, usage) THEN 256 ELSE 16)
MmmSize(f, usage, w, h) ==
  Align(MmmStride(f, usage, w) * (MmmRows(f, usage, h) + MmmChromaRows(f, usage, h)), 4096)
MmmRgb(w, h) == <<Align(w, 64), Align(h, 16)>>

-----------------------------------------------------------------------------
IsUbwc(f, usage) == f \in Ubwc /\ "ubwc" \in usage

\* GetAlignedWidthAndHeight.
AlignedRgb(f, usage, w, h) ==
  LET aw == IF Bpp[f] = 3 THEN Align(w, 256) ELSE Align(w * Bpp[f], 256) \div Bpp[f]
      ah == IF IsUbwc(f, usage) THEN Align(h, 16) ELSE h
  IN IF f = "RGBA_8888" /\ "overlay" \in usage /\ "secure" \notin usage THEN MmmRgb(aw, ah) ELSE <<aw, ah>>

Alignment(usage) == IF "adreno" \in usage THEN GpuAlignment ELSE 16

Aligned(f, usage, w, h) ==
  CASE f \in Rgb -> AlignedRgb(f, usage, w, h)
    [] f = "YCRCB_420_SP" \/ f \in {"YCbCr_420_SP_VENUS", "YCrCb_420_SP_VENUS", "NV12_HEIF"} ->
         <<MmmStride(f, usage, w), MmmRows(f, usage, h)>>
    [] f = "YCbCr_420_P010" -> <<MmmStride(f, usage, w) \div 2, MmmRows(f, usage, h)>>
    [] f = "YCbCr_420_SP" -> <<Align(w, IF "adreno" \in usage THEN GpuAlignment ELSE 64), h>>
    [] f = "YCrCb_420_SP_ADRENO" -> <<Align(w, 32), h>>
    [] f = "NV21_ZSL" -> <<Align(w, 64), Align(h, 64)>>
    [] f = "RAW12" -> <<Align((w * 12) \div 8, 16), h>>
    [] f = "RAW10" -> <<Align((w * 10) \div 8, 16), h>>
    [] f = "YV12" -> <<Align(w, Alignment(usage)), h>>
    [] f \in {"RAW8", "RAW16", "Y8", "Y16", "YCBCR_422_SP"} -> <<Align(w, 16), h>>
    [] f = "CbYCrY_422_I" -> <<w, h>>

\* GetRgbUBwcMetaBufferSize: one byte for a block of pixels.
BlockWidth(f) == IF Bpp[f] = 8 THEN 8 ELSE 16

\* Broken variant: the rows of blocks are not aligned.
MetaRowsUnaligned(h) == (h + 3) \div 4

MetaRows(h) == Align((h + 3) \div 4, 16)

MetaSize(f, w, h) ==
  Align(Align((w + BlockWidth(f) - 1) \div BlockWidth(f), 64) * MetaRows(h), 4096)

\* GetDataAlignment.
DataAlignment(usage) ==
  IF "protected" \notin usage THEN PageSize ELSE IF "secure" \in usage THEN 2097152 ELSE 4096

\* GetSize, of one layer; 0 is a request that is refused.
Bytes(f, usage, w, h, aw, ah) ==
  CASE IsUbwc(f, usage) -> aw * ah * Bpp[f] + MetaSize(f, w, h)
    [] f \in Rgb \ (IF "ubwc" \in usage THEN Ubwc ELSE {}) -> aw * ah * Bpp[f]
    [] f \in {"RAW16", "Y16"} -> aw * ah * 2
    [] f \in {"RAW10", "RAW12"} -> Align(aw * ah, 4096)
    [] f \in {"RAW8", "Y8"} -> aw * ah
    [] f = "YCrCb_420_SP_ADRENO" ->
         Align(aw * ah, 4096) + Align(2 * Align(w \div 2, 32) * Align(h \div 2, 32), 4096)
    [] f = "YV12" -> Align(aw * ah + (Align(aw \div 2, Alignment(usage)) * (ah \div 2)) * 2, 4096)
    [] f \in {"YCbCr_420_SP", "YCRCB_420_SP"} -> Align(aw * ah + (aw * ah) \div 2 + 1, 4096)
    [] f \in {"YCBCR_422_SP", "CbYCrY_422_I"} -> Align(aw * ah * 2, 4096)
    [] f = "NV21_ZSL" -> Align(aw * ah + (aw * ah) \div 2, 4096)
    [] f \in {"YCbCr_420_P010", "YCbCr_420_SP_VENUS", "YCrCb_420_SP_VENUS", "NV12_HEIF"} ->
         MmmSize(f, usage, w, h)

Refused(f, w, h) ==
  \/ f = "YV12" /\ (w % 2 = 1 \/ h % 2 = 1)
  \/ f \in {"YCBCR_422_SP", "CbYCrY_422_I"} /\ w % 2 = 1

Size(q) ==
  LET a == Aligned(q.format, q.usage, q.width, q.height)
  IN Align(Bytes(q.format, q.usage, q.width, q.height, a[1], a[2]), DataAlignment(q.usage))

-----------------------------------------------------------------------------
Plane(offset, stride, rows, size) == [offset |-> offset, stride |-> stride, rows |-> rows, size |-> size]

\* GetYuvSPPlaneInfo: w and h are those of the handle or of its CROP.
SpPlanes(q, w, h) ==
  LET f == q.format
      rows == IF f = "YCbCr_420_SP_VENUS" THEN MmmRows(f, q.usage, h) ELSE h
      chromaRows ==
        CASE f \in {"YCbCr_420_SP", "YCRCB_420_SP", "NV21_ZSL"} -> h \div 2
          [] f = "YCBCR_422_SP" -> h
          [] f = "YCrCb_420_SP_ADRENO" -> 0
          [] OTHER -> MmmChromaRows(f, q.usage, h)
      lumaSize == IF f = "YCrCb_420_SP_ADRENO" THEN Align(w * h, 4096) ELSE w * rows
      chromaSize == IF f = "YCrCb_420_SP_ADRENO"
                    THEN Align(2 * Align(q.width \div 2, 32) * Align(q.height \div 2, 32), 4096)
                    ELSE w * chromaRows
  IN <<Plane(0, w, rows, lumaSize), Plane(lumaSize, w, chromaRows, chromaSize)>>

\* GetYUVPlaneInfo, the formats it computes itself.
P010Planes(q, w, h) ==
  LET stride == MmmStride(q.format, q.usage, w)
      rows == MmmRows(q.format, q.usage, h)
      chromaRows == MmmChromaRows(q.format, q.usage, h)
  IN <<Plane(0, stride, rows, stride * rows),
       Plane(stride * rows, stride, chromaRows, stride * chromaRows)>>

\* Broken variant: the second chroma plane is where the first is.
CbOffsetAtCr(luma, chroma) == luma

CbOffset(luma, chroma) == luma + chroma

Yv12Planes(q, w, h) ==
  LET stride == Align(w \div 2, Alignment(q.usage))
      chroma == stride * (h \div 2)
  IN <<Plane(0, w, h, w * h), Plane(CbOffset(w * h, chroma), stride, h \div 2, chroma),
       Plane(w * h, stride, h \div 2, chroma)>>

\* GetRawPlaneInfo: the size the client asked for, and no usage.
RawPlanes(q) ==
  LET w == Aligned(q.format, {}, q.width, q.height)[1]
  IN <<Plane(0, IF q.format = "RAW16" THEN w * 2 ELSE w, q.height, Size([q EXCEPT !.usage = {}]))>>

\* GetRGBPlaneInfo: the size is that of the whole buffer.
RgbPlanes(q) ==
  LET a == Aligned(q.format, q.usage, q.width, q.height)
      meta == IF IsUbwc(q.format, q.usage) THEN MetaSize(q.format, a[1], a[2]) ELSE 0
  IN <<Plane(meta, a[1] * Bpp[q.format], a[2], Size(q))>>

PlanesAt(q) ==
  LET a == Aligned(q.format, q.usage, q.crop[1], q.crop[2])
      w == a[1]
      h == a[2]
  IN CASE q.format \in Sp -> SpPlanes(q, w, h)
       [] q.format \in LumaOnly ->
            LET stride == IF q.format = "Y16" THEN 2 * w ELSE w IN <<Plane(0, stride, h, stride * h)>>
       [] q.format \in Raw -> RawPlanes(q)
       [] q.format \in Rgb -> RgbPlanes(q)
       [] q.format = "YCbCr_420_P010" -> P010Planes(q, w, h)
       [] q.format = "YV12" -> Yv12Planes(q, w, h)
       [] q.format = "CbYCrY_422_I" -> <<Plane(0, w * 2, h, w * 2 * h)>>

-----------------------------------------------------------------------------
UsagesOf(f) ==
  CASE f \in Ubwc -> SUBSET {"ubwc", "overlay", "secure"}
    [] f \in {"YCbCr_420_SP", "YV12"} -> SUBSET {"adreno"}
    [] f \in {"YCbCr_420_SP_VENUS", "YCbCr_420_P010"} -> SUBSET {"heif"}
    [] f \in Raw -> {{}, {"protected"}, {"protected", "secure"}}
    [] OTHER -> {{}}

BlInit == query = <<>>

\* A buffer is asked for, and a CROP rectangle inside it set.
Ask == \E f \in Formats : \E u \in UsagesOf(f), w \in Widths, h \in Heights :
  /\ query = <<>> /\ ~Refused(f, w, h)
  /\ \E cw \in {x \in Widths : x <= w}, ch \in {x \in Heights : x <= h} :
       query' = <<[format |-> f, usage |-> u, width |-> w, height |-> h, crop |-> <<cw, ch>>]>>

BlNext == Ask

BlSpec == BlInit /\ [][BlNext]_blVars

-----------------------------------------------------------------------------
(* Properties                                                              *)

Asked == {query[i] : i \in DOMAIN query}

\* The last byte of the last row of every plane is inside the allocation, and
\* so is the size that is reported for it (but for RGB, where that is the size
\* of the whole buffer).
PlanesFit == \A q \in Asked : \A i \in DOMAIN PlanesAt(q) :
  LET p == PlanesAt(q)[i]
  IN /\ p.offset + p.stride * p.rows <= Size(q)
     /\ q.format \notin Rgb => p.offset + p.size <= Size(q)

\* The planes of a buffer do not overlap.
PlanesDisjoint == \A q \in Asked : \A i, j \in DOMAIN PlanesAt(q) : i # j =>
  LET p == PlanesAt(q)[i] r == PlanesAt(q)[j]
  IN p.offset + p.size <= r.offset \/ r.offset + r.size <= p.offset \/ p.size = 0 \/ r.size = 0
=============================================================================
