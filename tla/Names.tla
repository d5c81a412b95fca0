-------------------------------- MODULE Names --------------------------------
(***************************************************************************)
(* Addresses and artifact ids, and how they are written as text and read   *)
(* back.  A text is a sequence of symbols: the characters that the code    *)
(* looks for, and letters and digits for the others.                       *)
(***************************************************************************)
EXTENDS Integers, SequencesExt

CONSTANTS Failed, None
ASSUME FailedAssumption == Failed # None

Digits == {"0", "1", "2"}

(* str::split, split_once for a text that contains c, strip_prefix and       *)
(* trim_start_matches.                                                     *)
Split(s, c) ==
    FoldLeft(LAMBDA segments, x : IF x = c THEN Append(segments, <<>>)
                                  ELSE [segments EXCEPT ![Len(segments)] = Append(@, x)],
             <<<<>>>>, s)
SplitOnce(s, c) ==
    LET i == SelectInSeq(s, LAMBDA x : x = c)
    IN <<SubSeq(s, 1, i - 1), SubSeq(s, i + 1, Len(s))>>
StripPrefix(s, p) == IF IsPrefix(p, s) THEN SubSeq(s, Len(p) + 1, Len(s)) ELSE s
TrimStart(s, c) ==
    LET i == SelectInSeq(s, LAMBDA x : x # c)
    IN IF i = 0 THEN <<>> ELSE SubSeq(s, i, Len(s))

(* Addr: its segments.  parse takes an address with or without the slashes   *)
(* in front.                                                               *)
AddrParse(text) == Split(StripPrefix(text, <<"/", "/">>), "/")
ToId(addr) == FlattenSeq([i \in DOMAIN addr |-> IF i = 1 THEN addr[i] ELSE <<"/">> \o addr[i]])
-----------------------------------------------------------------------------
UNSUPPORTED_CHARS == {"@", ":", ".", "-", "/"}
UNSUPPORTED_PREFIX == <<"http://", "https://">>

(* Faulty variant: the dash is left in names. *)
NameKeepsDash(text) ==
    TrimStart([i \in DOMAIN text |-> IF text[i] \in UNSUPPORTED_CHARS \ {"-"} THEN "_" ELSE text[i]], "_")

(* Name::parse.  A prefix of UNSUPPORTED_PREFIX is one symbol. *)
NameParse(text) ==
    LET bare == FoldLeft(LAMBDA s, p : StripPrefix(s, <<p>>), text, UNSUPPORTED_PREFIX)
    IN TrimStart([i \in DOMAIN bare |-> IF bare[i] \in UNSUPPORTED_CHARS THEN "_" ELSE bare[i]], "_")

(* Id.  Neither sources nor transforms give a package or a version. *)
MakeId(text, arch, digest) ==
    [package |-> None, name |-> NameParse(text), version |-> None, arch |-> arch, digest |-> digest]

(* An optional part with the separator that goes before or after it. *)
Before(part, c) == IF part = None THEN <<>> ELSE part \o <<c>>
After(c, part) == IF part = None THEN <<>> ELSE <<c>> \o part

PrefixOf(id) == Before(id.package, "+") \o id.name \o After("-", id.version) \o After(".", id.arch)
Display(id) == PrefixOf(id) \o <<"-">> \o id.digest

(* Version::parse, of versions without pre-release and build. *)
IsVersion(s) ==
    LET parts == Split(s, ".")
    IN Len(parts) = 3 /\ \A i \in 1 .. 3 : parts[i] # <<>> /\ ToSet(parts[i]) \subseteq Digits

(* A text cut at the first c, if it has one. *)
CutAfter(text, c) == IF Contains(text, c) THEN SplitOnce(text, c) ELSE <<text, None>>
CutBefore(text, c) == IF Contains(text, c) THEN SplitOnce(text, c) ELSE <<None, text>>

(* Id::from_str of the segments behind the package: two, or three, of which  *)
(* the version is looked for in the first and the digest is the second.      *)
(* split_once panics without a dot, which fails as an error does.            *)
TwoSegments(package, parts, digest) ==
    [package |-> package, name |-> NameParse(parts[1]), version |-> None,
     arch |-> parts[2], digest |-> digest]
ThreeSegments(package, first, parts, digest) ==
    IF ~IsVersion(parts[1]) THEN Failed
    ELSE [package |-> package, name |-> NameParse(first), version |-> parts[1],
          arch |-> parts[2], digest |-> digest]
FromSegments(package, s) ==
    CASE Len(s) = 2 -> TwoSegments(package, CutAfter(s[1], "."), s[2])
      [] Len(s) = 3 -> ThreeSegments(package, s[1],
                           IF Contains(s[2], ".") THEN CutAfter(s[1], ".") ELSE <<s[1], None>>, s[2])
      [] OTHER -> Failed

(* Faulty variant: the package is not read back. *)
NoPackage(cut) == FromSegments(None, Split(cut[2], "-"))

WithPackage(cut) ==
    FromSegments(IF cut[1] = None THEN None ELSE NameParse(cut[1]), Split(cut[2], "-"))
FromStr(text) == WithPackage(CutBefore(text, "+"))
-----------------------------------------------------------------------------
(* MediaType: what a layer holds and its compression.  The part of its text  *)
(* that does not vary is one symbol; detect takes several suffixes for a    *)
(* compression.                                                            *)
ArtifactPrefix == "vnd.edo.artifact.v1."
CompressionSuffixes ==
    [Zstd |-> {".zst", "+zst"}, Gzip |-> {".gz", "+gz", ".gzip", "+gzip", ".gzip2", "+gzip2"},
     Bzip2 |-> {".bz2", "+bz2", ".bzip2", "+bzip2", ".bzip", "+bzip"},
     Lz |-> {".lz4", "+lz4", ".lzma", "+lzma"}, Xz |-> {".xz", "+xz"}]
CompressionText == [Zstd |-> ".zst", Gzip |-> ".gz", Bzip2 |-> ".bz2", Lz |-> ".lz4", Xz |-> ".xz"]

Detect(text) ==
    LET found == {c \in DOMAIN CompressionSuffixes : text # <<>> /\ Last(text) \in CompressionSuffixes[c]}
    IN IF found = {} THEN <<text, None>> ELSE <<Front(text), CHOOSE c \in found : TRUE>>

MediaText(media) ==
    <<ArtifactPrefix, media.kind>>
        \o (IF media.compression = None THEN <<>> ELSE <<CompressionText[media.compression]>>)
MediaParse(text) ==
    LET found == Detect(text)
    IN IF Len(found[1]) # 2 \/ found[1][1] # ArtifactPrefix THEN Failed
       ELSE [kind |-> found[1][2], compression |-> IF found[1][2] = "manifest" THEN None ELSE found[2]]
=============================================================================
