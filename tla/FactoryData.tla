---------------------------- MODULE FactoryData ----------------------------
(***************************************************************************)
(* The factory data layouts of src/tools/factory/factory_data.py and the   *)
(* one operation on them, init_oem_base_fields.                            *)
(*                                                                         *)
(* A ctypes Structure with _pack_ = 1 lays its _fields_ out one after the  *)
(* other with no padding, so a layout is the sequence of its fields with   *)
(* their widths in bytes, and a field's offset is the sum of the widths    *)
(* before it.  An OEMData object is its bytes: buf[o] is byte o.          *)
(***************************************************************************)
EXTENDS Integers, Sequences, FiniteSets, SequencesExt

CONSTANTS
  Watched,    \* the bytes whose value the caller's object may hold
  PriorBytes  \* the values those bytes may hold

Field(name, width) == [name |-> name, width |-> width]

\* ctypes.sizeof of a packed structure.
Sizeof(layout) == FoldLeft(LAMBDA acc, f : acc + f.width, 0, layout)

\* The offset ctypes gives the field called name.
Offset(layout, name) ==
  LET i == CHOOSE i \in DOMAIN layout : layout[i].name = name
  IN Sizeof(SubSeq(layout, 1, i - 1))

ProductHwInfo ==
  << Field("hardware_name", 1), Field("hardware_type", 1),
     Field("hardware_revision", 1), Field("hardware_variant", 1) >>

OEMData ==
  << Field("header", 4), Field("magic", 4), Field("version", 1),
     Field("production_mode_oem", 1), Field("production_mode_customer", 1),
     Field("reserved0", 1), Field("hardware_info", 16), Field("uuid", 16),
     Field("factory_sn", 32), Field("hardware_id", 32),
     Field("project_data", 84), Field("security", 320) >>

CustomerData ==
  << Field("product_sn", 16), Field("product_hw_info", Sizeof(ProductHwInfo)),
     Field("reserved", 492) >>

FactoryDataLayout ==
  << Field("oem_data", Sizeof(OEMData)), Field("customer_data", Sizeof(CustomerData)) >>

\* MAGIC = "$FA!" as the bytes a Python 2 str holds, and VERSION.
MAGIC == <<36, 70, 65, 33>>
VERSION == 1

\* (c_ubyte * n).from_buffer_copy(s) copies the first n bytes of s; it
\* raises ValueError when s is shorter, which MAGIC never is.
FromBufferCopy(n, s) == SubSeq(s, 1, n)

ASSUME Len(MAGIC) >= 4

Bytes == 0..255

\* Assigning to a c_ubyte field or array element stores the value mod 256
\* at the field's offset plus the index.
SetBytes(b, o, data) ==
  [k \in DOMAIN b |-> IF k - o \in 0..Len(data) - 1 THEN data[k - o + 1] % 256
                      ELSE b[k]]

VARIABLES
  buf,    \* the bytes of oem_fdata
  prior,  \* what the caller's object held before the call
  called  \* init_oem_base_fields has returned

vars == <<buf, prior, called>>

\* The caller passes any OEMData: a fresh one is all zeros, one read back
\* from a device holds whatever the device held.
Init ==
  /\ \E v \in [Watched -> PriorBytes] :
       buf = [k \in 0..Sizeof(OEMData) - 1 |-> IF k \in Watched THEN v[k] ELSE 0]
  /\ prior = buf
  /\ called = FALSE

InitOemBaseFields ==
  /\ ~called
  /\ LET at(name) == Offset(OEMData, name)
     IN buf' = SetBytes(SetBytes(SetBytes(SetBytes(SetBytes(buf,
                 at("header"), <<255, 255, 255, 255>>),
                 at("magic"), FromBufferCopy(4, MAGIC)),
                 at("version"), <<VERSION>>),
                 at("production_mode_oem"), <<255>>),
                 at("production_mode_customer"), <<255>>)
  /\ called' = TRUE
  /\ UNCHANGED prior

Next == InitOemBaseFields

Spec == Init /\ [][Next]_vars

-----------------------------------------------------------------------------
(* Properties                                                              *)

\* The docstrings of lines 32, 42 and 60 give the sizes of the three
\* structures "see declaration in infra/factory_data.h": ProductHwInfo
\* 16 bytes, OEMData and CustomerData 512 bytes each; the OEMData is the
\* object the caller hands to init_oem_base_fields.  CustomerData embeds
\* ProductHwInfo, so the firmware reading a customer area laid out by
\* these classes finds its reserved bytes where the header puts them only
\* if all three sizes hold together.
SizesAsDocumented ==
  /\ Sizeof(ProductHwInfo) = 16
  /\ Cardinality(DOMAIN buf) = 512
  /\ Sizeof(CustomerData) = 512

=============================================================================
