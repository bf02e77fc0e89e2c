----------------------------- MODULE AddressCv -----------------------------
(***************************************************************************)
(* The address CVs of a DCC decoder, as `addr_set` and `addr_get` of       *)
(* src/src/loco_programming/z21.rs use them.                               *)
(*                                                                         *)
(* CV 1 holds the short address, CV 17 and CV 18 the long one, CV 29 bit 5 *)
(* selects the long one, and CV 28 bit 7 is ESU RailComPlus.  The bit      *)
(* arithmetic lives in the crate dcc-bigfred-proto-z21, which is not part  *)
(* of the repository; it is modelled from the calls z21.rs makes and the   *)
(* values z21.rs's tests expect.                                           *)
(***************************************************************************)
EXTENDS Integers, Sequences

Byte == 0..255

\* The CVs the address operations touch (ADDR_CVS plus RAILCOM_PLUS_CV).
AddrCvs == <<1, 17, 18, 29>>
CvNo == {1, 17, 18, 28, 29}

MaxDccAddress == 10239
LongBit == 32
RailcomBit == 128

(* A CV that was not read: `Option<u8>::None`. *)
NoValue == -1

BitOn(v, bit) == (v \div bit) % 2 = 1
SetBit(v, bit) == IF BitOn(v, bit) THEN v ELSE v + bit
ClearBit(v, bit) == IF BitOn(v, bit) THEN v - bit ELSE v

Entry(cv, value) == [cv |-> cv, value |-> value]

(* validate_address *)
ValidAddress(a) == a \in 1..MaxDccAddress

(* let long = addr > 127 *)
IsLong(a) == a > 127

(* Faulty variants, to test the properties with: the low byte of a long    *)
(* address not masked, the form bit first, the form bit forgotten.         *)
AddressCvWritesUnmasked(a, cv29) ==
    IF IsLong(a)
    THEN << Entry(17, 192 + a \div 256), Entry(18, a), Entry(29, SetBit(cv29, LongBit)) >>
    ELSE << Entry(1, a), Entry(29, ClearBit(cv29, LongBit)) >>

AddressCvWritesFormFirst(a, cv29) ==
    IF IsLong(a)
    THEN << Entry(29, SetBit(cv29, LongBit)), Entry(17, 192 + a \div 256), Entry(18, a % 256) >>
    ELSE << Entry(29, ClearBit(cv29, LongBit)), Entry(1, a) >>

AddressCvWritesNoForm(a, cv29) ==
    IF IsLong(a) THEN << Entry(17, 192 + a \div 256), Entry(18, a % 256) >>
                 ELSE << Entry(1, a) >>

(* z21::address_cv_writes: the form bit goes last, after the address bytes. *)
AddressCvWrites(a, cv29) ==
    IF IsLong(a)
    THEN << Entry(17, 192 + a \div 256), Entry(18, a % 256), Entry(29, SetBit(cv29, LongBit)) >>
    ELSE << Entry(1, a), Entry(29, ClearBit(cv29, LongBit)) >>

RailcomPlusOn(v) == BitOn(v, RailcomBit)

(* Faulty variant: RailComPlus is switched off last. *)
AppendRailcomPlusOff(cv28, writes) ==
    IF cv28 # NoValue /\ RailcomPlusOn(cv28)
    THEN writes \o << Entry(28, ClearBit(cv28, RailcomBit)) >>
    ELSE writes

(* prepend_railcom_plus_off *)
PrependRailcomPlusOff(cv28, writes) ==
    IF cv28 # NoValue /\ RailcomPlusOn(cv28)
    THEN << Entry(28, ClearBit(cv28, RailcomBit)) >> \o writes
    ELSE writes

(* z21::decode_address on a CV table *)
DecodeAddress(cvs) ==
    IF BitOn(cvs[29], LongBit)
    THEN (cvs[17] % 64) * 256 + cvs[18]
    ELSE cvs[1]
=============================================================================
