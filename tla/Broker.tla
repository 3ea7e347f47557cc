------------------------------- MODULE Broker -------------------------------
(***************************************************************************)
(* The HTTP broker (crates/envault-broker): what it demands of a request,  *)
(* which addresses it connects to, and what it lets through of a response. *)
(*                                                                         *)
(* Text is modelled by tokens.  A path is a sequence of "/", ".", the      *)
(* percent-encoded "%2f" and "%2e", and other characters.  A response      *)
(* that repeats the credential is the sequence of the encodings around it, *)
(* the outermost first.                                                    *)
(***************************************************************************)
EXTENDS Integers, FiniteSets, Sequences, SequencesExt

\* The first failure on a list of conditions and names decides; without one all is well.
FirstError(failures) ==
    LET failing == {i \in DOMAIN failures : failures[i][1]}
    IN  IF failing = {} THEN "ok" ELSE failures[Min(failing)][2]

-----------------------------------------------------------------------------
(* Requests.                                                               *)

Bodyless == {"GET", "DELETE"}

\* str::split('/') of a path.
SplitAt(segments, t) ==
    IF t = "/" THEN Append(segments, <<>>)
    ELSE [segments EXCEPT ![Len(segments)] = Append(@, t)]
Split(path) == FoldLeft(SplitAt, << <<>> >>, path)

Segments(path) == Range(Split(path))
DotSegments == {<<".">>, <<".", ".">>}

\* percent_decode
Decoded(t) ==
    CASE t = "%2f" -> "/"
      [] t = "%2e" -> "."
      [] OTHER -> t
Decode(path) == [i \in DOMAIN path |-> Decoded(path[i])]

\* valid_path_prefix: a prefix is not encoded and has no dot segments.
ValidPathPrefix(prefix) ==
    /\ prefix # <<>> /\ Head(prefix) = "/"
    /\ Range(prefix) \cap {"%2f", "%2e"} = {}
    /\ Segments(prefix) \cap DotSegments = {}

\* Mutant: any continuation of the prefix will do.
PathIsAllowed_AnySuffix(path, prefix) == IsPrefix(prefix, path)

\* path_is_allowed: the prefix ends where a segment of the path does.
PathIsAllowed(path, prefix) ==
    \/ path = prefix
    \/ /\ IsStrictPrefix(prefix, path)
       /\ Last(prefix) = "/" \/ path[Len(prefix) + 1] = "/"

HasDangerousPathSegment(path) ==
    \E s \in Segments(path) : Decode(s) \in DotSegments \/ "/" \in Range(Decode(s))

MaxHttpRequestBytes == 512 * 1024
MaxHttpResponseBytes == 512 * 1024

\* HttpConstraint::validate; "canonical" says that the host is as a URL has it.
ValidConstraint(c) ==
    /\ c.canonical /\ c.port # 0
    /\ Len(c.methods) \in 1 .. 5 /\ IsInjective(c.methods)
    /\ ValidPathPrefix(c.prefix)
    /\ c.maxRequest \in 1 .. MaxHttpRequestBytes
    /\ c.maxResponse \in 1 .. MaxHttpResponseBytes

\* validate_http_request: "ok", or why the request is refused; the first of the
\* conditions that fails decides.
RequestError(r, c) ==
    FirstError(<<
            <<~ValidConstraint(c), "constraint">>,
            <<~r.parses, "url">>,
            <<r.scheme # "https", "scheme">>,
            <<r.userinfo, "credentials">>,
            <<r.fragment, "fragment">>,
            <<r.host # c.host \/ r.port # c.port, "origin">>,
            <<r.method \notin Range(c.methods), "method">>,
            <<~PathIsAllowed(r.path, c.prefix) \/ HasDangerousPathSegment(r.path), "path">>,
            <<r.size > c.maxRequest, "too_large">>,
            <<(r.size > 0) # r.typed \/ (r.method \in Bodyless /\ r.size > 0), "body">> >>)

-----------------------------------------------------------------------------
(* Addresses.  Of an IPv4 address the first three octets matter, of an IPv6  *)
(* address the first two of the eight 16-bit segments.                      *)

IsPublicIpv4(o) ==
    ~ \/ o[1] \in {0, 10, 127} \cup 224 .. 255
      \/ o[1] = 100 /\ o[2] \in 64 .. 127
      \/ o[1] = 169 /\ o[2] = 254
      \/ o[1] = 172 /\ o[2] \in 16 .. 31
      \/ o[1] = 192 /\ o[2] = 0 /\ o[3] \in {0, 2}
      \/ o[1] = 192 /\ o[2] = 88 /\ o[3] = 99
      \/ o[1] = 192 /\ o[2] = 168
      \/ o[1] = 198 /\ o[2] \in 18 .. 19
      \/ o[1] = 198 /\ o[2] = 51 /\ o[3] = 100
      \/ o[1] = 203 /\ o[2] = 0 /\ o[3] = 113

\* x & mask = value, for a mask that ends in k zeros.
Masked(x, k, value) == x \div 2^k = value \div 2^k

\* Mutant: the mask is one bit too short.
GlobalUnicast_ShortMask(segment) == Masked(segment, 14, 8192)

GlobalUnicast(segment) == Masked(segment, 13, 8192)

\* An address mapped to IPv4 is judged as that; the other addresses that the
\* code names, such as the loopback, are not global unicast.
IsPublicIpv6(s) ==
    /\ ~ \/ Masked(s[1], 9, 64512)
         \/ Masked(s[1], 6, 65152)
         \/ Masked(s[1], 6, 65216)
         \/ s[1] = 8193 /\ Masked(s[2], 9, 0)
         \/ s[1] = 8193 /\ s[2] = 3512
         \/ s[1] = 8194
         \/ s[1] = 16383 /\ Masked(s[2], 12, 0)
    /\ GlobalUnicast(s[1])

\* resolve_public_addresses: all of what the name resolves to, or nothing; the
\* connection is then pinned to these addresses.
ResolvePublicAddresses(addresses, family) ==
    LET public == {a \in addresses : IF family = "v4" THEN IsPublicIpv4(a) ELSE IsPublicIpv6(a)}
    IN  CASE addresses = {} -> "resolution_failed"
          [] public # addresses -> "private_address"
          [] OTHER -> "ok"

-----------------------------------------------------------------------------
(* Responses.                                                              *)

MaxDecodeRounds == 2
MaxDecodeCandidates == 64

\* The decoders, and what credential_patterns lists beside the credential itself.
TextLayer == {"percent", "json", "html"}
WholeLayer == {"base64", "base64url"}
PatternLayer == {"base64", "base64url", "hex", "HEX", "slash"}
Layer == TextLayer \cup WholeLayer \cup PatternLayer

\* The text after each decoder: those of text leave what they do not know, and
\* "slash", the escaped solidus, is one of JSON's escapes; base64 fails on it.
Peeled(text, kinds) == IF text # <<>> /\ Head(text) \in kinds THEN Tail(text) ELSE text
Decodings(text) ==
    <<Peeled(text, {"percent"}), Peeled(text, {"json", "slash"}), Peeled(text, {"html"})>>
    \o (IF text # <<>> /\ Head(text) = "base64" THEN <<Tail(text)>> ELSE <<>>)
    \o (IF text # <<>> /\ Head(text) = "base64url" THEN <<Tail(text)>> ELSE <<>>)

\* One round over the candidates, which stops once there are too many.
DecodeInto(next, c) == IF Len(next) >= MaxDecodeCandidates THEN next ELSE next \o Decodings(c)
NextCandidates(candidates) == FoldLeft(DecodeInto, <<>>, candidates)

Matches(text) == text = <<>> \/ (Len(text) = 1 /\ text[1] \in PatternLayer)

\* The candidates after k rounds of decoding the body.
Candidates(body) ==
    LET after[k \in 0 .. MaxDecodeRounds] ==
            IF k = 0 THEN <<body>> ELSE NextCandidates(after[k - 1])
    IN  after

\* Mutant: the candidates of the last round are not looked at.
ResponseContainsCredential_LastRound(body) ==
    \E k \in 0 .. (MaxDecodeRounds - 1) : \E c \in Range(Candidates(body)[k]) : Matches(c)

ResponseContainsCredential(body) ==
    \E k \in 0 .. MaxDecodeRounds : \E c \in Range(Candidates(body)[k]) : Matches(c)

\* The chunks that are buffered: reading ends before the limit is passed.
ReadChunk(acc, n, limit) ==
    IF acc.ended \/ acc.size + n > limit THEN [acc EXCEPT !.ended = TRUE]
    ELSE [acc EXCEPT !.size = @ + n]
Buffered(chunks, limit) ==
    FoldLeft(LAMBDA acc, n : ReadChunk(acc, n, limit), [size |-> 0, ended |-> FALSE], chunks)

\* execute_with_client on a response: w is what the provider sends.
ResponseError(w, limit) ==
    LET read == Buffered(w.chunks, limit)
    IN  FirstError(<<
            <<w.status \in 300 .. 399, "redirect">>,
            <<w.status \notin 200 .. 299, "provider_rejected">>,
            <<w.type = "other", "type">>,
            <<w.announced > limit, "too_large">>,
            <<read.ended, "too_large">>,
            <<read.size > 0 /\ w.type = "none", "type">>,
            <<w.echoes /\ ResponseContainsCredential(w.body), "echo">>,
            <<~w.utf8, "encoding">> >>)

-----------------------------------------------------------------------------
(* References.                                                             *)

\* The segments a provider sees that decodes the path and then walks it.
WalkInto(at, s) ==
    CASE s \in {<<>>, <<".">>} -> at
      [] s = <<".", ".">> -> IF at = <<>> THEN at ELSE Front(at)
      [] OTHER -> Append(at, s)
Walk(path) == FoldLeft(WalkInto, <<>>, Split(Decode(path)))

\* A path that is let through lies below the prefix for a provider that decodes
\* it before it walks it, too.
StaysBelowPrefix(path, prefix) ==
    ValidPathPrefix(prefix) /\ PathIsAllowed(path, prefix) /\ ~HasDangerousPathSegment(path)
        => IsPrefix(Walk(prefix), Walk(path))

\* The special-purpose blocks: first address and length of the prefix.
SpecialIpv4 ==
    {<<<<0, 0, 0>>, 8>>, <<<<10, 0, 0>>, 8>>, <<<<100, 64, 0>>, 10>>, <<<<127, 0, 0>>, 8>>,
     <<<<169, 254, 0>>, 16>>, <<<<172, 16, 0>>, 12>>, <<<<192, 0, 0>>, 24>>,
     <<<<192, 0, 2>>, 24>>, <<<<192, 88, 99>>, 24>>, <<<<192, 168, 0>>, 16>>,
     <<<<198, 18, 0>>, 15>>, <<<<198, 51, 100>>, 24>>, <<<<203, 0, 113>>, 24>>,
     <<<<224, 0, 0>>, 3>>}
SpecialIpv6 ==
    {<<<<64512, 0>>, 7>>, <<<<65152, 0>>, 10>>, <<<<65216, 0>>, 10>>, <<<<65280, 0>>, 8>>,
     <<<<8193, 0>>, 23>>, <<<<8193, 3512>>, 32>>, <<<<8194, 0>>, 16>>, <<<<16383, 0>>, 20>>}

\* The address, in parts of w bits, agrees with the block in its first bits.
InBlock(parts, block, w) ==
    \A i \in DOMAIN parts :
        LET bits == block[2] - w * (i - 1)
            rest == IF bits >= w THEN 1 ELSE 2^(w - bits)
        IN  bits > 0 => parts[i] \div rest = block[1][i] \div rest
=============================================================================
