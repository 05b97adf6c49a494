-------------------------------- MODULE UeKey --------------------------------
(***************************************************************************)
(* The key of a UE in the metric store (pkg/utils/id): a string of the     *)
(* numbers that the octets of its AMF's identity and its AMF UE NGAP ID    *)
(* stand for.                                                              *)
(***************************************************************************)
EXTENDS Integers, Sequences

CONSTANTS
  Base,        \* values of an octet, 256 in the code
  WordOctets,  \* octets of a uint64, 8 in the code
  Power,       \* Power[k]: values of k octets
  Widths,      \* octets of each field, as the service model fixes them
  NgapIDs,     \* AMF UE NGAP IDs
  None         \* no UE yet

Fields == {"plmnID", "amfRegionID", "amfSetID", "amfPointer"}
Octets == 0 .. Base - 1
Word == Power[WordOctets]

\* No field has more octets than a word.
ASSUME UeKeyAssumption ==
  /\ Base \in Nat \ {0} /\ WordOctets \in Nat
  /\ Power \in [0 .. WordOctets -> Nat] /\ Power[0] = 1
  /\ \A k \in 1 .. WordOctets : Power[k] = Power[k - 1] * Base
  /\ Widths \in [Fields -> 0 .. WordOctets]

OctetStrings(n) == [1 .. n -> Octets]

GnbUeIDs ==
  [guami : {g \in [Fields -> UNION {OctetStrings(Widths[f]) : f \in Fields}] :
              \A f \in Fields : g[f] \in OctetStrings(Widths[f])},
   ngap : NgapIDs]

\* Mutant: the octets are added up without the shift.
bytesToUint64Sum(b) ==
  LET result[n \in 0 .. Len(b)] == IF n = 0 THEN 0 ELSE (result[n - 1] + b[n]) % Word
  IN result[Len(b)]

\* result = (result << 8) + e for every octet, modulo 2^64
bytesToUint64(b) ==
  LET result[n \in 0 .. Len(b)] == IF n = 0 THEN 0 ELSE (result[n - 1] * Base + b[n]) % Word
  IN result[Len(b)]

(***************************************************************************)
(* The formatted string: the numbers, each after its name and a separator, *)
(* so that two strings are equal just when all the numbers are.            *)
(***************************************************************************)
GenerateGnbUeIDString(ue) ==
  <<bytesToUint64(ue.guami["plmnID"]), bytesToUint64(ue.guami["amfRegionID"]),
    bytesToUint64(ue.guami["amfSetID"]), bytesToUint64(ue.guami["amfPointer"]), ue.ngap>>

VARIABLES known, ue     \* the UE that has an entry, the UE of the next indication

ueKeyVars == <<known, ue>>

UeKeyInit == known = None /\ ue = None

\* HasEntry is asked about ue while known has an entry
Report ==
  /\ known = None
  /\ known' \in GnbUeIDs /\ ue' \in GnbUeIDs

UeKeySpec == UeKeyInit /\ [][Report]_ueKeyVars

-----------------------------------------------------------------------------
(***************************************************************************)
(* An entry that HasEntry finds is the entry of that UE: UEs of different  *)
(* AMFs with the same NGAP ID, or with the same octets in other fields, do *)
(* not share one.                                                          *)
(***************************************************************************)
KeyIdentifiesUE ==
  known # None /\ GenerateGnbUeIDString(known) = GenerateGnbUeIDString(ue) => known = ue
=============================================================================
