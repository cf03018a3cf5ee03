-------------------------------- MODULE SdJwt --------------------------------
(***************************************************************************)
(* Selective disclosure as packages/sd-jwt-core computes it: pack hides    *)
(* claims behind digests, unpack opens them again with the disclosures at  *)
(* hand, and a presentation frame picks the disclosures to hand over.      *)
(*                                                                         *)
(* A hash is collision free, so a digest is the algorithm and what was     *)
(* hashed; a fresh salt is named by the place it was drawn for.            *)
(***************************************************************************)
EXTENDS Integers, Sequences, SequencesExt, FiniteSetsExt

CONSTANTS
    None,         \* an absent value; in a presentation frame, false
    Yes,          \* in a presentation frame, true
    Spelling      \* the characters of every claim name and array index

(* JSON.  An object keeps its _sd array apart from its other members. *)
Str(v) == [t |-> "str", v |-> v]
Arr(e) == [t |-> "arr", e |-> e]
Obj(m, sd) == [t |-> "obj", m |-> m, sd |-> sd]
Plain(m) == Obj(m, <<>>)
Placeholder(digest) == [t |-> "digest", d |-> digest]

(* Names of array indices, apart from those of claims. *)
IndexNames == <<"#0", "#1", "#2", "#3">>

Listed(S) == FoldSet(LAMBDA x, s : Append(s, x), <<>>, S)

Keys(v) ==
    CASE v.t = "obj" -> Listed(DOMAIN v.m)
      [] v.t = "arr" -> SubSeq(IndexNames, 1, Len(v.e))
      [] OTHER -> <<>>

IndexNumber(k) == CHOOSE i \in DOMAIN IndexNames : IndexNames[i] = k

Child(v, k) == IF v.t = "obj" THEN v.m[k] ELSE v.e[IndexNumber(k)]

Flatten(f(_), s) == FlattenSeq([i \in DOMAIN s |-> f(s[i])])

SubFrame(frame, k) == IF frame # None /\ k \in DOMAIN frame.sub THEN frame.sub[k] ELSE None

(* Recursion goes over what is reached from a value by steps that Inside   *)
(* says.  Bound: MaxNesting, how deep claims and frames are nested.        *)
MaxNesting == 5

Reached(whole, Inside(_)) ==
    LET inside(S) == UNION {Inside(x) : x \in S}
        level1 == Inside(whole)
        level2 == inside(level1)
        level3 == inside(level2)
        level4 == inside(level3)
        level5 == inside(level4)
    IN  {whole} \cup level1 \cup level2 \cup level3 \cup level4 \cup level5

(* Where a value is, and the frame it is packed with. *)
Place(path, v, frame) == [path |-> path, value |-> v, frame |-> frame]

Beneath(p, k) == Place(Append(p.path, k), Child(p.value, k), SubFrame(p.frame, k))

Places(v, frame) == Reached(Place(<<>>, v, frame), LAMBDA p : {Beneath(p, k) : k \in ToSet(Keys(p.value))})

PathsOf(v) == {p.path : p \in Places(v, None)} \ {<<>>}

ValuesIn(v) == Reached(v, LAMBDA x : {Child(x, k) : k \in ToSet(Keys(x))})

-------------------------------------------------------------------------------
(* Names only the format may use. *)
ReservedFields == {"_sd", "_sd_alg", "_sd_decoy", "..."}

HasReservedFields(claims) ==
    \E v \in ValuesIn(claims) :
        \/ v.t = "digest"
        \/ v.t = "obj" /\ (v.sd # <<>> \/ DOMAIN v.m \cap ReservedFields # {})

-------------------------------------------------------------------------------
(* Disclosures and digests.  key is None for an array element. *)
Digest(alg, content) == [alg |-> alg, of |-> content]

Decoy(alg, path, n) == Digest(alg, [decoy |-> path, n |-> n])

(* The value is disclosed with its own members packed. *)
DisclosureOf(v, k, path, packed) ==
    [salt |-> Append(path, k), key |-> IF v.t = "obj" THEN k ELSE None, value |-> packed]

(* pack: members with a frame of their own are packed first, those the     *)
(* frame names are then replaced by digests, and decoys are added.         *)
Pack(alg, claims, frame) ==
    LET pack[p \in Places(claims, frame)] ==
            IF p.frame = None THEN [packed |-> p.value, disclosures |-> <<>>]
            ELSE LET v == p.value
                     Hidden(k) == k \in p.frame.sd
                     inner == [k \in ToSet(Keys(v)) |-> pack[Beneath(p, k)]]
                     hidden == SelectSeq(Keys(v), Hidden)
                     own == [i \in DOMAIN hidden |-> DisclosureOf(v, hidden[i], p.path, inner[hidden[i]].packed)]
                     digests == [i \in DOMAIN own |-> Digest(alg, own[i])]
                     decoys == [n \in 1 .. p.frame.decoys |-> Decoy(alg, p.path, n)]
                     element(k) == IF Hidden(k)
                                   THEN Placeholder(Digest(alg, DisclosureOf(v, k, p.path, inner[k].packed)))
                                   ELSE inner[k].packed
                 IN [packed |->
                         IF v.t = "arr"
                         THEN Arr([i \in DOMAIN v.e |-> element(IndexNames[i])]
                                  \o [n \in DOMAIN decoys |-> Placeholder(decoys[n])])
                         ELSE Obj([k \in DOMAIN v.m \ p.frame.sd |-> inner[k].packed], digests \o decoys),
                     disclosures |-> Flatten(LAMBDA k : inner[k].disclosures, Keys(v)) \o own]
    IN pack[Place(<<>>, claims, frame)]

(* What a frame leaves in it for a salt generator to do. *)
DecoyCount(frame) ==
    LET frames == Reached([path |-> <<>>, frame |-> frame],
                          LAMBDA p : {[path |-> Append(p.path, k), frame |-> p.frame.sub[k]] : k \in DOMAIN p.frame.sub})
    IN IF frame = None THEN 0 ELSE FoldSet(LAMBDA p, n : n + p.frame.decoys, 0, frames)

(* A salt generator that repeats itself is noticed at the second           *)
(* disclosure or decoy it is used for.                                     *)
SaltsRepeat(stuck, frame, disclosures) == stuck /\ (Len(disclosures) > 1 \/ DecoyCount(frame) > 1)

-------------------------------------------------------------------------------
(* createHashMapping: the digests that can be opened, none of them twice.  *)
HashMapping(alg, disclosures) == {Digest(alg, disclosures[i]) : i \in DOMAIN disclosures}

RepeatedDisclosure(disclosures) ==
    \E i, j \in DOMAIN disclosures : i < j /\ disclosures[i] = disclosures[j]

(* The members and elements that can be seen, with the digest of those     *)
(* that are opened; None is the name of one disclosed without a name.      *)
Entry(k, digest, v) == [key |-> k, digest |-> digest, value |-> v]

Entries(v, map) ==
    CASE v.t = "obj" ->
            {Entry(k, None, v.m[k]) : k \in DOMAIN v.m}
            \cup {Entry(digest.of.key, digest, digest.of.value) : digest \in ToSet(v.sd) \cap map}
      [] v.t = "arr" ->
            {IF v.e[i].t = "digest" THEN Entry(IndexNames[i], v.e[i].d, v.e[i].d.of.value)
             ELSE Entry(IndexNames[i], None, v.e[i])
             : i \in {j \in DOMAIN v.e : v.e[j].t = "digest" => v.e[j].d \in map}}
      [] OTHER -> {}

OpenValues(v, map) == Reached(v, LAMBDA x : {entry.value : entry \in Entries(x, map)})

(* All that can be seen, with its path. *)
OpenPlaces(v, map) ==
    Reached([path |-> <<>>, digest |-> None, value |-> v],
            LAMBDA p : {[path |-> Append(p.path, entry.key), digest |-> entry.digest, value |-> entry.value]
                        : entry \in Entries(p.value, map)})

(* Every digest met while unpacking, in the values disclosed on the way    *)
(* too, as often as it is met.                                             *)
References(payload, map) ==
    LET references[v \in OpenValues(payload, map)] ==
            LET opened(digest) == <<digest>> \o IF digest \in map THEN references[digest.of.value] ELSE <<>>
            IN CASE v.t = "obj" -> Flatten(LAMBDA k : references[v.m[k]], Keys(v)) \o Flatten(opened, v.sd)
                 [] v.t = "arr" -> Flatten(LAMBDA e : IF e.t = "digest" THEN opened(e.d) ELSE references[e], v.e)
                 [] OTHER -> <<>>
    IN references[payload]

(* A disclosed name is neither a plain member nor disclosed before. *)
NameFree(v, i, map) ==
    /\ v.sd[i].of.key \notin DOMAIN v.m
    /\ \A j \in 1 .. i - 1 : v.sd[j] \in map => v.sd[j].of.key # v.sd[i].of.key

(* What unpackObjInternal and unpackArray throw for. *)
UnpackFails(payload, map) ==
    LET fails[v \in OpenValues(payload, map), nested \in BOOLEAN] ==
            \/ /\ v.t = "obj"
               /\ \/ nested /\ "_sd_alg" \in DOMAIN v.m
                  \/ \E k \in DOMAIN v.m \ {"..."} : fails[v.m[k], TRUE]
                  \/ \E i \in DOMAIN v.sd :
                        /\ v.sd[i] \in map
                        /\ \/ v.sd[i].of.key = None
                           \/ ~NameFree(v, i, map)
                           \/ fails[v.sd[i].of.value, TRUE]
            \/ /\ v.t = "arr"
               /\ \E i \in DOMAIN v.e :
                     IF v.e[i].t = "digest"
                     THEN v.e[i].d \in map /\ (v.e[i].d.of.key # None \/ fails[v.e[i].d.of.value, TRUE])
                     ELSE fails[v.e[i], TRUE]
    IN fails[payload, FALSE]

UnpackError(payload, map) ==
    LET references == References(payload, map)
    IN \/ UnpackFails(payload, map)
       \/ ~IsInjective(references)
       \/ \E digest \in map : digest \notin ToSet(references)

(* The claims, without the members and elements that stay hidden: a value, *)
(* given what to make of the values in it, and so for each level of        *)
(* MaxNesting.                                                             *)
UnpackedWith(Inner(_, _), v, map) ==
    CASE v.t = "obj" ->
            LET open == {v.sd[i] : i \in {j \in DOMAIN v.sd : v.sd[j] \in map}}
                named(k) == (CHOOSE digest \in open : digest.of.key = k).of.value
            IN Plain([k \in DOMAIN v.m \cup {digest.of.key : digest \in open} |->
                        Inner(IF k \in DOMAIN v.m THEN v.m[k] ELSE named(k), map)])
      [] v.t = "arr" ->
            Arr(Flatten(LAMBDA e : IF e.t # "digest" THEN <<Inner(e, map)>>
                                   ELSE IF e.d \in map THEN <<Inner(e.d.of.value, map)>> ELSE <<>>,
                        v.e))
      [] OTHER -> v

Unpacked5(v, map) == v
Unpacked4(v, map) == UnpackedWith(Unpacked5, v, map)
Unpacked3(v, map) == UnpackedWith(Unpacked4, v, map)
Unpacked2(v, map) == UnpackedWith(Unpacked3, v, map)
Unpacked1(v, map) == UnpackedWith(Unpacked2, v, map)
Unpacked(v, map) == UnpackedWith(Unpacked1, v, map)

-------------------------------------------------------------------------------
(* Paths as strings.  A dot within a name must not read as a separator. *)
EncodePathSegment(k) ==
    Flatten(LAMBDA c : CASE c = "~" -> <<"~", "0">> [] c = "." -> <<"~", "1">> [] OTHER -> <<c>>, Spelling[k])

Join(prefix, k) ==
    IF prefix = <<>> THEN EncodePathSegment(k) ELSE prefix \o <<".">> \o EncodePathSegment(k)

PathString(path) == FoldLeft(LAMBDA prefix, k : Join(prefix, k), <<>>, path)

(* disclosureKeymap: where each opened digest was found. *)
DisclosureKeymap(payload, map) ==
    {[path |-> PathString(p.path), digest |-> p.digest] : p \in {q \in OpenPlaces(payload, map) : q.digest # None}}

(* The parts of a presentation frame that are frames themselves. *)
FramePlaces(frame) ==
    Reached([path |-> <<>>, frame |-> frame],
            LAMBDA p : {[path |-> Append(p.path, k), frame |-> p.frame[k]]
                        : k \in {x \in DOMAIN p.frame : p.frame[x] \notin {None, Yes}}})

(* Mutant: only the paths it says yes to. *)
TransformedLeaves(frame) ==
    LET transformed[p \in FramePlaces(frame)] ==
            Flatten(LAMBDA k : IF p.frame[k] = None THEN <<>>
                               ELSE IF p.frame[k] = Yes THEN <<PathString(Append(p.path, k))>>
                               ELSE transformed[[path |-> Append(p.path, k), frame |-> p.frame[k]]],
                    Listed(DOMAIN p.frame))
    IN transformed[[path |-> <<>>, frame |-> frame]]

(* The paths a presentation frame asks for: those it says yes to, and     *)
(* those on the way to them.                                               *)
TransformPresentationFrame(frame) ==
    LET transformed[p \in FramePlaces(frame)] ==
            Flatten(LAMBDA k : IF p.frame[k] = None THEN <<>>
                               ELSE <<PathString(Append(p.path, k))>> \o
                                    IF p.frame[k] = Yes THEN <<>>
                                    ELSE transformed[[path |-> Append(p.path, k), frame |-> p.frame[k]]],
                    Listed(DOMAIN p.frame))
    IN transformed[[path |-> <<>>, frame |-> frame]]

(* getPresentDisclosures, for what unpack does not throw for. *)
PresentDisclosures(alg, payload, disclosures, frame) ==
    LET map == HashMapping(alg, disclosures)
        keymap == DisclosureKeymap(payload, map)
        paths == IF frame = None THEN Listed({entry.path : entry \in keymap})
                 ELSE TransformPresentationFrame(frame)
        at(path) == {entry.digest : entry \in {e \in keymap : e.path = path}}
    IN Flatten(LAMBDA path : IF at(path) = {} THEN <<>> ELSE <<(CHOOSE digest \in at(path) : TRUE).of>>, paths)

(* listKeys: the paths of all claims, for requiredClaimKeys. *)
ListKeys(v) == {PathString(path) : path \in PathsOf(v)}

-------------------------------------------------------------------------------
(* What a presentation is for, said without digests: the claims, less the  *)
(* ones the issuer's frame hides that are at none of the shown paths.      *)
Shown(claims, frame, shown) ==
    LET without[p \in Places(claims, frame)] ==
            LET v == p.value
                visible == SelectSeq(Keys(v), LAMBDA k : p.frame = None \/ k \notin p.frame.sd \/ Append(p.path, k) \in shown)
            IN CASE v.t = "obj" -> Plain([k \in ToSet(visible) |-> without[Beneath(p, k)]])
                 [] v.t = "arr" -> Arr([i \in DOMAIN visible |-> without[Beneath(p, visible[i])]])
                 [] OTHER -> v
    IN without[Place(<<>>, claims, frame)]

(* The paths a presentation frame shows. *)
FramePaths(frame) ==
    UNION {{Append(p.path, k) : k \in {x \in DOMAIN p.frame : p.frame[x] # None}} : p \in FramePlaces(frame)}
================================================================================
