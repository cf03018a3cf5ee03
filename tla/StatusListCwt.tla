--------------------------- MODULE StatusListCwt ---------------------------
(***************************************************************************)
(* The life of a status list of @owf/token-status-list on the issuer's     *)
(* side and as a verifier reads it: the index of each Referenced Token     *)
(* comes from StatusListIndexAllocator (StatusListIndex), its status is    *)
(* kept in a StatusListCwt, and signAndEncode() publishes the list.        *)
(*                                                                         *)
(* A StatusListCwt holds up to three forms of the list at once: the        *)
(* compressed bytes `lst`, the inflated StatusList, created on first read, *)
(* and the payload bytes a token was decoded from.  DEFLATE has many       *)
(* outputs for one input, so `lst` records who compressed it.              *)
(***************************************************************************)
EXTENDS StatusListIndex

CONSTANTS
    Bits,       \* bitsPerStatus: 1, 2, 4 or 8
    Statuses,   \* the statuses the issuer sets
    MaxUpdates, \* bound: changes of the list in a behaviour
    MaxSigned   \* bound: tokens signed in a behaviour

ASSUME BitsAssumption == Bits \in {1, 2, 4, 8}
ASSUME StatusesAssumption == Statuses \subseteq 0 .. 2 ^ Bits - 1

Valid == 0                 \* StatusType.Valid
PerByte == 8 \div Bits     \* statuses in a byte
NumBytes == (Length * Bits + 7) \div 8
PaddedLength == NumBytes * PerByte
Absent == <<>>

-----------------------------------------------------------------------------
\* ByteFrom(list, k)[n]: the bits of byte k from status k * PerByte + n on; a
\* later status is put in front of the earlier ones (`currentByte = status +
\* currentByte`).
ByteFrom(list, k) ==
    LET from[n \in 0 .. PerByte] ==
            IF n = PerByte \/ k * PerByte + n \notin DOMAIN list THEN 0
            ELSE list[k * PerByte + n] * 2 ^ (Bits * n) + from[n + 1]
    IN  from

\* encodeStatusListIntoByteArray
Encode(list) == [k \in 0 .. NumBytes - 1 |-> ByteFrom(list, k)[0]]

\* The slice of numBits bits of the byte string that starts at bit `bitIndex`.
Slice(byte, bitIndex) == (byte \div 2 ^ (8 - Bits - bitIndex)) % 2 ^ Bits

\* decodeStatusListFromByteArray: the i-th slice is read from the front of its
\* byte and stored at the mirrored position of its group.
Position(i) == (i \div PerByte) * PerByte + (PerByte - 1 - (i % PerByte))
Decode(bytes) ==
    [p \in 0 .. PaddedLength - 1 |->
        LET i == CHOOSE n \in 0 .. PaddedLength - 1 : Position(n) = p
        IN  Slice(bytes[(i * Bits) \div 8], (i * Bits) % 8)]

\* verifyStatusValid: the index is of the list read and its status Valid.
VerifyStatusValid(list, idx) ==
    idx \in DOMAIN list /\ list[idx] = Valid

-----------------------------------------------------------------------------
VARIABLES
    lst,        \* structure.get('lst'): [by: who compressed, bytes]
    inflated,   \* #statusList: Absent, or <<list>>
    modified,   \* #isModified of the inflated list
    original,   \* originalPayloadBytes: Absent, or the payload bytes <<lst>>
    signing,    \* payload snapshot of the signAndEncode() in flight, or Absent
    published,  \* the tokens published, the latest last
    wanted,     \* history: wanted[i]: status the issuer last set at index i
    unmarked,   \* history: an in-place change awaits markPayloadModified()
    signedWanted, \* history: `wanted` as signAndEncode() was called
    updates     \* number of changes so far

cwtVars == <<lst, inflated, modified, original, signing, published, wanted,
             unmarked, signedWanted, updates>>

EmptyList == [i \in 0 .. Length - 1 |-> Valid]

CwtInit ==
    /\ Init
    /\ lst = [by |-> "us", bytes |-> Encode(EmptyList)]
    /\ inflated = Absent
    /\ modified = FALSE
    /\ original = Absent
    /\ signing = Absent
    /\ published = <<>>
    /\ wanted = EmptyList
    /\ unmarked = FALSE
    /\ signedWanted = EmptyList
    /\ updates = 0

\* The inflated list, decompressed on first read.
Inflated == IF inflated = Absent THEN Decode(lst.bytes) ELSE inflated[1]

\* StatusList.setStatus on the inflated list.
SetStatus(i, v) ==
    /\ inflated' = <<[Inflated EXCEPT ![i] = v]>>
    /\ modified' = TRUE

\* Mutant: the retained payload bytes survive the update.
UpdateStatusListUnmarked(i, v) ==
    /\ updates < MaxUpdates
    /\ updates' = updates + 1
    /\ SetStatus(i, v)
    /\ wanted' = [Inflated EXCEPT ![i] = v]
    /\ unmarked' = FALSE
    /\ UNCHANGED <<lst, original, signing, published, signedWanted, vars>>

\* StatusListCwt.updateStatusList
UpdateStatusList(i, v) ==
    /\ updates < MaxUpdates
    /\ updates' = updates + 1
    /\ SetStatus(i, v)
    /\ original' = Absent
    /\ wanted' = [Inflated EXCEPT ![i] = v]
    /\ unmarked' = FALSE
    /\ UNCHANGED <<lst, signing, published, signedWanted, vars>>

\* payload.statusList.setStatus(): a change in place the Cwt does not see.
SetStatusInPlace(i, v) ==
    /\ updates < MaxUpdates
    /\ updates' = updates + 1
    /\ SetStatus(i, v)
    /\ unmarked' = TRUE
    /\ UNCHANGED <<lst, original, signing, published, wanted, signedWanted, vars>>

\* markPayloadModified(), which the documentation asks for after such a change;
\* assigning the payload calls it too, with or without a change.
MarkPayloadModified ==
    /\ unmarked \/ original # Absent
    /\ original' = Absent
    /\ unmarked' = FALSE
    /\ wanted' = Inflated
    /\ UNCHANGED <<lst, inflated, modified, signing, published, signedWanted,
                   updates, vars>>

\* StatusListCwt.setStatusList with a fresh StatusList: it is compressed at
\* once and replaces the structure, inflated list included.
SetStatusList(list) ==
    /\ updates < MaxUpdates
    /\ updates' = updates + 1
    /\ lst' = [by |-> "us", bytes |-> Encode(list)]
    /\ inflated' = Absent
    /\ modified' = FALSE
    /\ original' = Absent
    /\ wanted' = list
    /\ unmarked' = FALSE
    /\ UNCHANGED <<signing, published, signedWanted, vars>>

\* compressStatusListIfModified
Compressed ==
    IF inflated # Absent /\ modified
    THEN [by |-> "us", bytes |-> Encode(inflated[1])] ELSE lst

\* signAndEncode() up to the await of the signer: asSign1 takes payloadBytes,
\* which encodes the payload only when no original bytes are retained.
SignStart ==
    /\ signing = Absent
    /\ Len(published) < MaxSigned
    /\ IF original # Absent THEN signing' = original /\ UNCHANGED lst
       ELSE signing' = <<Compressed>> /\ lst' = Compressed
    /\ signedWanted' = IF unmarked THEN <<>> ELSE wanted
    /\ UNCHANGED <<inflated, modified, original, published, wanted, unmarked,
                   updates, vars>>

\* The signer resolves: the token carries the snapshot and its signature.
SignEnd ==
    /\ signing # Absent
    /\ published' = Append(published, [lst |-> signing[1], wanted |-> signedWanted])
    /\ signing' = Absent
    /\ UNCHANGED <<lst, inflated, modified, original, wanted, unmarked,
                   signedWanted, updates, vars>>

\* getter StatusListCbor.statusList (a read inflates the list and keeps it)
ReadStatusList ==
    /\ inflated = Absent
    /\ inflated' = <<Inflated>>
    /\ modified' = FALSE
    /\ UNCHANGED <<lst, original, signing, published, wanted, unmarked,
                   signedWanted, updates, vars>>

(***************************************************************************)
(* The process restarts: the allocator from its stored state, and the list *)
(* from the latest token with StatusListCwt.fromToken, or from the start.  *)
(* `by` is where the token was compressed: by this code, or by the one the *)
(* deployment ran before.                                                  *)
(***************************************************************************)
ReloadFromToken(by) ==
    /\ published # <<>>
    /\ LET token == published[Len(published)] IN
       /\ token.wanted # <<>>
       /\ lst' = [token.lst EXCEPT !.by = by]
       /\ original' = <<lst'>>
       /\ wanted' = token.wanted
    /\ inflated' = Absent
    /\ modified' = FALSE
    /\ signing' = Absent
    /\ unmarked' = FALSE
    /\ published' = [published EXCEPT ![Len(published)].lst.by = by]
    /\ Restart
    /\ UNCHANGED <<signedWanted, updates>>

AllocatorStep == (Refill \/ Draw \/ Created \/ IssueNext \/ LoseNext) /\ UNCHANGED cwtVars

CwtNext ==
    \/ AllocatorStep
    \/ \E k \in DOMAIN issued, v \in Statuses :
          \/ UpdateStatusList(issued[k], v)
          \/ SetStatusInPlace(issued[k], v)
    \/ MarkPayloadModified
    \/ \E v \in Statuses : SetStatusList([i \in 0 .. Length - 1 |-> v])
    \/ ReadStatusList
    \/ SignStart \/ SignEnd
    \/ \E by \in {"us", "other"} : ReloadFromToken(by)

CwtSpec == CwtInit /\ [][CwtNext]_<<vars, cwtVars>>

-----------------------------------------------------------------------------
Latest == published[Len(published)]

\* What a verifier reads from a published token is what the issuer had set at
\* each index when signAndEncode() was called: updates, in-place changes that
\* were marked, replaced lists, reads and restarts lose nothing.  Any verifier
\* reads it so: on the wire a status is packed from the least significant bit
\* of its byte on, as the Token Status List specification wants, and the
\* padding of the last byte reads as Valid.
PublishedStatuses ==
    published # <<>> /\ Latest.wanted # <<>> =>
        /\ \A i \in Indices :
             /\ Decode(Latest.lst.bytes)[i] = Latest.wanted[i]
             /\ (Latest.lst.bytes[i \div PerByte] \div 2 ^ (Bits * (i % PerByte))) % 2 ^ Bits = Latest.wanted[i]
        /\ \A i \in Length .. PaddedLength - 1 : VerifyStatusValid(Decode(Latest.lst.bytes), i)
=============================================================================
