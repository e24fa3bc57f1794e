-------------------------------- MODULE Uri --------------------------------
(***************************************************************************)
(* URLs (libhtmlparser/Uri.cc, utils.cc): taken apart, put together again,    *)
(* made absolute, and their paths normalised.  A URL is a sequence of signs:  *)
(* the delimiters, a letter, a digit and a dot.  "W" stands for the prefix    *)
(* www., "I" for a default file name (index.html and the like).               *)
(***************************************************************************)
EXTENDS Integers, Sequences, SequencesExt

CONSTANTS
    default_port,       \* port_of_Scheme of the known schemes, as a function
    KnownSchemes

Alpha == {"s", "h", "W", "I"}
Digits == {"8", "9"}

Part(u, i, j) == SubSeq(u, i, j)
Find(u, i, set) ==
    LET hits == { k \in i .. Len(u) : u[k] \in set }
    IN  IF hits = {} THEN Len(u) + 1 ELSE CHOOSE k \in hits : \A l \in hits : k <= l
FindBack(u, set) ==
    LET hits == { k \in DOMAIN u : u[k] \in set }
    IN  IF hits = {} THEN 0 ELSE CHOOSE k \in hits : \A l \in hits : k >= l

NoUri == [scheme |-> <<>>, user |-> <<>>, password |-> <<>>, host |-> <<>>, port |-> 0,
          portStr |-> <<>>, path |-> <<>>, query |-> <<>>, existsQuery |-> FALSE,
          fragment |-> <<>>, existsFragment |-> FALSE, invalid |-> FALSE]

port_of_Scheme(s) == IF s \in KnownSchemes THEN default_port[s] ELSE 0

(* strtol of a port: its digits in front, and nothing may follow them. *)
Number(s) == FoldLeft(LAMBDA n, c : 10 * n + (IF c = "8" THEN 8 ELSE 9), 0, s)
IsNumber(s) == ToSet(s) \subseteq Digits

-----------------------------------------------------------------------------
(* deal_with_path: what is not in the URL is left as it was. *)
WithPath(o, u) ==
    LET p == Find(u, 1, {"?", "#"})
        sign == IF p <= Len(u) THEN u[p] ELSE ""
        h == Find(u, p + 1, {"#"})
        pathed == IF p = 1 THEN o ELSE [o EXCEPT !.path = Part(u, 1, p - 1)]
        queried == [pathed EXCEPT !.query = Part(u, p + 1, h - 1), !.existsQuery = TRUE]
        WithFragment(v, i) == [v EXCEPT !.fragment = Part(u, i + 1, Len(u)), !.existsFragment = TRUE]
    IN  CASE sign = "" -> pathed
          [] sign = "?" -> IF h <= Len(u) THEN WithFragment(queried, h) ELSE queried
          [] sign = "#" -> WithFragment(pathed, p)

(* deal_with_host: the first colon is before the port. *)
WithHost(o, host, rest) ==
    LET c == Find(host, 1, {":"})
        digits == Part(host, c + 1, Len(host))
        named == [o EXCEPT !.host = Part(host, 1, c - 1)]
    IN  IF c > Len(host) THEN WithPath(named, rest)
        ELSE IF digits = <<>> THEN WithPath([named EXCEPT !.port = port_of_Scheme(o.scheme)], rest)
        ELSE IF IsNumber(digits)
             THEN WithPath([named EXCEPT !.portStr = digits, !.port = Number(digits)], rest)
        ELSE [named EXCEPT !.portStr = digits, !.invalid = TRUE]

(* init, of an object that may have been used before. *)
init(o, u) ==
    LET c == Find(u, 1, {":", "/", "?", "#"})
        isFull == /\ u[1] \in Alpha
                  /\ IsPrefix(<<":", "/", "/">>, Part(u, c, Len(u)))
        h == Find(u, c + 3, {"/", "?", "#"})
        info == Part(u, c + 3, h - 1)
        at == FindBack(info, {"@"})
        colon == Find(Part(info, 1, at - 1), 1, {":"})
        schemed == [o EXCEPT !.scheme = Part(u, 1, c - 1)]
        known == IF at = 0 THEN schemed
                 ELSE IF colon < at
                 THEN [schemed EXCEPT !.user = Part(info, 1, colon - 1), !.password = Part(info, colon + 1, at - 1)]
                 ELSE [schemed EXCEPT !.user = Part(info, 1, at - 1)]
    IN  IF u = <<>> THEN o
        ELSE IF ~isFull THEN WithPath(o, u)
        ELSE WithHost(known, Part(info, at + 1, Len(info)), Part(u, h, Len(u)))

parse(u) == init(NoUri, u)

-----------------------------------------------------------------------------
(* unparse, with the flags that are set. *)
PathPart(o, flags) ==
    LET p == o.path
        cut == IF "DEFAULT_FILENAMES" \in flags /\ p # <<>> /\ Last(p) = "I" THEN Front(p) ELSE p
    IN  IF "TRAILING_BAR" \in flags /\ Len(cut) > 1 /\ Last(cut) = "/" THEN Front(cut) ELSE cut

RECURSIVE KeysOnly(_, _)
KeysOnly(q, inside) ==
    LET in == IF q[1] = "=" THEN TRUE ELSE IF q[1] = "&" THEN FALSE ELSE inside
    IN  IF q = <<>> THEN <<>> ELSE (IF in THEN <<>> ELSE <<q[1]>>) \o KeysOnly(Tail(q), in)

QueryPart(o, flags) ==
    IF "QUERY" \in flags \/ ~o.existsQuery THEN <<>>
    ELSE <<"?">> \o (IF "QUERY_VALUES" \in flags THEN KeysOnly(o.query, FALSE) ELSE o.query)

HostPart(o, flags) ==
    IF "WWW_PREFIX" \in flags /\ o.host # <<>> /\ o.host[1] = "W" THEN Tail(o.host) ELSE o.host

unparseWithoutPort(o, flags) ==
    (IF "SCHEME" \in flags \/ o.scheme = <<>> THEN <<>> ELSE o.scheme \o <<":", "/", "/">>)
    \o HostPart(o, flags)
    \o PathPart(o, flags)
    \o QueryPart(o, flags)
    \o (IF "FRAGMENT" \in flags \/ ~o.existsFragment THEN <<>> ELSE <<"#">> \o o.fragment)

unparse(o, flags) ==
    (IF "SCHEME" \in flags \/ o.scheme = <<>> THEN <<>> ELSE o.scheme \o <<":", "/", "/">>)
    \o HostPart(o, flags)
    \o (IF o.portStr # <<>> /\ ~(o.scheme # <<>> /\ o.port = port_of_Scheme(o.scheme))
        THEN <<":">> \o o.portStr ELSE <<>>)
    \o PathPart(o, flags)
    \o QueryPart(o, flags)
    \o (IF "FRAGMENT" \in flags \/ ~o.existsFragment THEN <<>> ELSE <<"#">> \o o.fragment)

-----------------------------------------------------------------------------
(* absolute: a URL without a scheme is completed from a base. *)
absolute(o, base) ==
    LET root == IF base.path = <<>> THEN [base EXCEPT !.path = <<"/">>] ELSE base
        Tailed(r) == [r EXCEPT !.query = o.query, !.existsQuery = o.existsQuery,
                               !.fragment = o.fragment, !.existsFragment = o.existsFragment]
    IN  IF o.scheme # <<>>
        THEN IF o.path = <<>> THEN [o EXCEPT !.path = <<"/">>] ELSE o
        ELSE IF o.path = <<>>
        THEN IF o.existsQuery THEN Tailed(root)
             ELSE IF o.existsFragment
             THEN [root EXCEPT !.fragment = o.fragment, !.existsFragment = TRUE] ELSE root
        ELSE Tailed([root EXCEPT !.path =
                        IF o.path[1] = "/" THEN o.path
                        ELSE Part(root.path, 1, FindBack(root.path, {"/"})) \o o.path])

(* normalize_slashs, of a path without query: from the first // or /. on, the characters go through
   four states; out is what was kept. *)
RECURSIVE Slashes(_, _, _)
Slashes(p, state, out) ==
    LET c == Head(p)
        Go(s, o) == Slashes(Tail(p), s, o)
        up == FindBack(Front(out), {"/"})
    IN  IF p = <<>> THEN out
        ELSE CASE state = "NONE" -> Go(IF c = "/" THEN "SLASH" ELSE "NONE", Append(out, c))
               [] c = "/" /\ state = "DOTDOT" -> Go("SLASH", IF up > 0 THEN Part(out, 1, up) ELSE out)
               [] c = "/" -> Go("SLASH", out)
               [] c = "." /\ state = "SLASH" -> Go("DOT", out)
               [] c = "." /\ state = "DOT" -> Go("DOTDOT", out)
               [] state = "SLASH" -> Go("NONE", Append(out, c))
               [] state = "DOT" -> Go("NONE", out \o <<".", c>>)
               [] state = "DOTDOT" -> Go("NONE", out \o <<".", ".", c>>)

normalize_slashs(p) ==
    LET problems == { i \in 1 .. Len(p) - 1 : p[i] = "/" /\ p[i + 1] \in {"/", "."} }
        first == CHOOSE i \in problems : \A j \in problems : i <= j
    IN  IF problems = {} THEN p
        ELSE Slashes(Part(p, first, Len(p)), "NONE", Part(p, 1, first - 1))

(* convert_link of a page at base: "" for a link that is no URL. *)
convert_link(link, base) ==
    LET o == absolute(parse(link), base)
    IN  IF parse(link).invalid THEN <<>>
        ELSE unparse([o EXCEPT !.path = normalize_slashs(@)], {"FRAGMENT"})

-----------------------------------------------------------------------------
Port(o) == IF o.port = 0 THEN port_of_Scheme(o.scheme) ELSE o.port

(* A URL written out and read again leads to the same place, and is written the same: tasks hand
   it to their pthreads and to the log file in this way.  Only who logs in is lost. *)
WrittenReadsBack(u) ==
    LET o == parse(u)
        again == parse(unparse(o, {}))
        Place(v) == <<v.scheme, v.host, Port(v), v.path, v.query, v.existsQuery, v.fragment,
                      v.existsFragment>>
    IN  ~o.invalid => /\ Place(again) = Place(o)
                      /\ unparse(again, {}) = unparse(o, {})

(* The segments of a path, and a path without . and .. and empty ones: what comes last is kept
   as it is, or left out if it is one of these. *)
RECURSIVE Split(_)
Split(p) ==
    LET i == Find(p, 1, {"/"})
    IN  IF i > Len(p) THEN <<p>> ELSE <<Part(p, 1, i - 1)>> \o Split(Part(p, i + 1, Len(p)))

Resolved(p) ==
    LET segs == Tail(Split(p))
        Step(done, s) == IF s \in {<<>>, <<".">>} THEN done
                         ELSE IF s = <<".", ".">> THEN IF done = <<>> THEN done ELSE Front(done)
                         ELSE Append(done, s)
        dirs == FoldLeft(Step, <<>>, Front(segs))
        name == IF Last(segs) \in {<<".">>, <<".", ".">>} THEN <<>> ELSE Last(segs)
    IN  <<"/">> \o FlattenSeq([i \in DOMAIN dirs |-> Append(dirs[i], "/")]) \o name

(* A path is normalised to the one it leads to, but for a .. at its end. *)
PathsAreResolved(p) == normalize_slashs(p) = Resolved(p)
=============================================================================
