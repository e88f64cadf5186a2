------------------------------ MODULE HttpText ------------------------------
(***************************************************************************)
(* The texts of the HTTP client: the URL it is given, the response it      *)
(* takes apart when a connection ends, the redirection it follows, chunked *)
(* bodies (app/http/httpclient.c), and the table of header fields made for *)
(* Lua (app/module/http.c).                                                *)
(*                                                                         *)
(* A text is a sequence of words: single characters where the code looks   *)
(* at characters, longer ones where it only looks for the whole word.  The *)
(* terminator stands behind the last one; Outside is what is read beyond   *)
(* it, or through a pointer that points nowhere: anything.                 *)
(*                                                                         *)
(* External: the server, which sends a response field by field and chunk   *)
(* by chunk and may be cut off behind any word.                            *)
(***************************************************************************)
EXTENDS Integers, SequencesExt

CONSTANTS
    Start,                    \* URLs a script asks for, as references
    Target,                   \* references a server redirects to
    Fields,                   \* other header fields of a response
    Data,                     \* pieces a body is made of
    Statuses,                 \* status codes a server sends, as words
    FieldMax, PieceMax,       \* bounds: fields of a response, pieces of a body
    HopMax,                   \* bound: redirections followed
    HostSize,                 \* sizeof(hostname)
    Outside,                  \* behaviour that is not defined
    Refused,                  \* a URL that http_request refuses
    Doubtful                  \* a redirection that leaves the target open

VARIABLES
    hop,                      \* what the client connects to and asks for
    meant,                    \* what the script or the server meant
    hops,                     \* redirections so far
    stage,                    \* how far the response is
    fields,                   \* its header fields so far
    pieces,                   \* the pieces of its body so far
    text                      \* the response as sent so far

textvars == <<hop, meant, hops, stage, fields, pieces, text>>

CR   == "\r"
LF   == "\n"
SP   == " "
CRLF == <<CR, LF>>

Digits == {"0", "1", "2", "3", "4", "5"}

Number ==
    [w \in Digits \cup {"200", "301"} |->
        CASE w = "0" -> 0 [] w = "1" -> 1 [] w = "2" -> 2 [] w = "3" -> 3
          [] w = "4" -> 4 [] w = "5" -> 5 [] w = "200" -> 200 [] w = "301" -> 301]

-----------------------------------------------------------------------------
(* The C library on texts.  A place is an index, that of the terminator    *)
(* included; 0 stands for NULL.                                            *)

Behind(t) == Len(t) + 1

\* The first place from i on that holds none, or one, of a set of words.
Skip(t, i, S) ==
    CHOOSE k \in i..Behind(t) :
        /\ k = Behind(t) \/ t[k] \notin S
        /\ \A m \in i..(k - 1) : t[m] \in S

Seek(t, i, S) ==
    CHOOSE k \in i..Behind(t) :
        /\ k = Behind(t) \/ t[k] \in S
        /\ \A m \in i..(k - 1) : t[m] \notin S

Between(t, i, k) == SubSeq(t, i, k - 1)

\* strstr(t + i, word)
Find(word, t, i) ==
    LET at == {k \in i..(Behind(t) - Len(word)) :
                  SubSeq(t, k, (k + Len(word)) - 1) = word}
    IN  IF at = {} THEN 0 ELSE CHOOSE k \in at : \A m \in at : k <= m

Has(word, t) == Find(word, t, 1) # 0

\* strtoul and atoi; signs and the prefix 0x are left out.
Value(t, i, base) ==
    LET first == Skip(t, i, {SP, CR, LF})
        digits == Between(t, first, Skip(t, first, Digits))
    IN  FoldLeft(LAMBDA n, d : base * n + Number[d], 0, digits)

-----------------------------------------------------------------------------
(* http_request: a URL is taken apart.                                     *)

\* Slip: a colon in the path is taken for the one before a port.
HostEndAnywhere(rest) == Seek(rest, 1, {":"})

\* The host ends at a colon, if there is one before the path, or at the path.
HostEnd(rest) == Seek(rest, 1, {":", "/"})

\* Refused also when no scheme is there at all.
Url(url) ==
    LET scheme == IF url = <<>> THEN "" ELSE url[1]
        rest   == IF url = <<>> THEN <<>> ELSE Tail(url)
        path   == Seek(rest, 1, {"/"})
        colon  == HostEnd(rest)
        port   == IF colon < Behind(rest) /\ rest[colon] = ":"
                  THEN Value(rest, colon + 1, 10)
                  ELSE IF scheme = "https://" THEN 443 ELSE 80
    IN  IF \/ scheme \notin {"http://", "https://"}
           \/ path - 1 >= HostSize
           \/ port = 0
        THEN Refused
        ELSE [secure |-> scheme = "https://",
              host   |-> Between(rest, 1, colon),
              port   |-> port,
              path   |-> IF path = Behind(rest) THEN <<"/">>
                         ELSE Between(rest, path, Behind(rest))]

-----------------------------------------------------------------------------
(* http_disconnect_callback: a response is taken apart.                    *)

Status(t) ==
    IF t = <<>> \/ t[1] # "HTTP/1.1" THEN -1
    ELSE IF Len(t) > 1 /\ t[2] \in DOMAIN Number THEN Number[t[2]] ELSE 0

\* Where "Location:" or else "location:" stands, wherever that is.
Location(t) ==
    LET capital == Find(<<"Location", ":">>, t, 1)
    IN  IF capital # 0 THEN capital ELSE Find(<<"location", ":">>, t, 1)

\* Slip: the size of a chunk is read as a decimal number.
ChunkSizeDecimal(t, j) == Value(t, j, 10)

ChunkSize(t, j) == Value(t, j, 16)

\* http_chunked_decode: size, extension, line end, data, line end, until a
\* size is zero or no number.  Nothing tells it where the text ends.
Chunks(t) ==
    LET decode[j \in 1..Behind(t)] ==
            LET i     == ChunkSize(t, j)
                data  == Find(CRLF, t, j) + Len(CRLF)
                after == data + i + Len(CRLF)
            IN  IF i = 0 THEN <<>>
                ELSE IF \/ data = Len(CRLF)
                        \/ after \notin (j + 1)..Behind(t)
                        \/ decode[after] = Outside
                THEN Outside
                ELSE Between(t, data, data + i) \o decode[after]
    IN  decode[1]

Lower == ("Location" :> "location") @@ ("Content-" :> "content-") @@ ("X" :> "x") @@
         ("Transfer-Encoding" :> "transfer-encoding")
LowerCase(name) ==
    [i \in DOMAIN name |-> IF name[i] \in DOMAIN Lower THEN Lower[name[i]] ELSE name[i]]

\* Slip: the spaces behind the colon are kept.
ValueStartUnskipped(t, colon) == colon + 1

ValueStart(t, colon) == Skip(t, colon + 1, {SP})

NextLine(t, i) == IF i < Behind(t) /\ t[i] = LF THEN i + 1 ELSE i

\* A field in front of the others: one of the same name further on replaces it.
WithField(table, name, value) ==
    [n \in DOMAIN table \cup {name} |-> IF n \in DOMAIN table THEN table[n] ELSE value]

\* One turn of the loop of http_callback, at place p, where line has the tables
\* from further on: an empty line, or one without a colon, ends it.
FieldAt(line, t, p) ==
    LET eol   == Seek(t, p, {CR})
        colon == Seek(t, p, {":", CR})
        value == ValueStart(t, colon)
        next  == NextLine(t, eol + 1)
    IN  IF p = Behind(t) \/ t[p] \in {CR, LF} \/ colon = eol THEN <<>>
        ELSE IF eol = Behind(t) \/ line[next] = Outside THEN Outside
        ELSE WithField(line[next], LowerCase(Between(t, p, colon)), Between(t, value, eol))

\* http_callback: the fields behind the first line.
Table(t) ==
    LET line[p \in 1..Behind(t)] == FieldAt(line, t, p)
    IN  line[NextLine(t, Seek(t, 1, {LF}))]

Failure == [kind |-> "error"]

\* Slip: the terminator is counted.
PlainEnding(t, from) == Between(t, from, Behind(t)) \o <<"">>

\* A body that is not chunked: the rest of the buffer without its terminator.
Plain(t, from) == Between(t, from, Behind(t))

\* Without the empty line behind the header the body is an empty string
\* elsewhere, and its length the distance to that string.
Answer(t) ==
    LET blank == Find(CRLF \o CRLF, t, 1)
        body  == IF blank = 0 THEN Outside
                 ELSE IF Has(<<"Transfer-Encoding", ":", SP, "chunked">>, t)
                 THEN Chunks(Between(t, blank + 4, Behind(t)))
                 ELSE Plain(t, blank + 4)
    IN  IF body = Outside THEN Outside
        ELSE [kind |-> "answer", status |-> Status(t), body |-> body, table |-> Table(t)]

Read(t) ==
    LET at  == Location(t)
        eol == Find(CRLF, t, at)
    IN  CASE Status(t) = -1 -> Failure
          [] Status(t) \in 300..308 /\ at # 0 ->
                IF eol = 0 THEN Failure
                ELSE [kind  |-> "redirect",
                      value |-> Between(t, Skip(t, at + 2, {SP}), eol)]
          [] OTHER -> Answer(t)

\* strrchr: the path up to its last slash.
Folder(path) == SubSeq(path, 1, SelectLastInSeq(path, LAMBDA c : c = "/"))

\* Where the client goes next.
Redirected(from, value) ==
    CASE value # <<>> /\ value[1] \in {"http://", "https://"} -> Url(value)
      [] value # <<>> /\ value[1] = "/" -> [from EXCEPT !.path = value]
      [] OTHER -> [from EXCEPT !.path = Folder(@) \o value]

-----------------------------------------------------------------------------
(* The server: what it means, and how it is written.                       *)

\* A reference is a full URL, whose port and path may be left out, a path
\* from the root, or one from the folder of the page.
Digit(n) == CHOOSE d \in Digits : Number[d] = n

Written(ref) ==
    CASE ref.kind = "url" ->
            <<IF ref.secure THEN "https://" ELSE "http://">> \o ref.host \o
            (IF ref.port = 0 THEN <<>>
             ELSE <<":">> \o (IF ref.port < 10 THEN <<>> ELSE <<Digit(ref.port \div 10)>>)
                  \o <<Digit(ref.port % 10)>>) \o ref.path
      [] OTHER -> ref.path

\* A page whose query has a slash: strrchr finds that one.
SlashInQuery(path) == Has(<<"/">>, Between(path, Seek(path, 1, {"?"}), Behind(path)))

Meant(ref, from) ==
    CASE ref.kind = "url" ->
            [secure |-> ref.secure, host |-> ref.host,
             port |-> IF ref.port # 0 THEN ref.port ELSE IF ref.secure THEN 443 ELSE 80,
             path |-> IF ref.path = <<>> THEN <<"/">> ELSE ref.path]
      [] ref.kind = "root" ->
            IF from = Doubtful THEN Doubtful ELSE [from EXCEPT !.path = ref.path]
      [] OTHER ->
            IF from = Doubtful \/ SlashInQuery(from.path) THEN Doubtful
            ELSE [from EXCEPT !.path = Folder(@) \o ref.path]

Chunked == <<"Transfer-Encoding">>

Header(f) == f.name \o <<":">> \o f.pad \o f.value \o CRLF

\* Header fields that may be sent; a redirection is meant by Location alone.
Sendable ==
    Fields \cup {[name |-> <<n>>, pad |-> <<SP>>, value |-> Written(ref), ref |-> ref] :
                    n \in {"Location", "location"}, ref \in Target}

\* The words that the client searches for in all of the response.
Searched == {"Location", "location", "Transfer-Encoding"}

\* A reference as it is written in full, from the root or beside the page.
Reference(ref) ==
    /\ ref.path \in Seq(STRING)
    /\ ref.kind \in {"url", "root", "beside"}
    /\ ref.kind = "url" =>
          /\ ref.secure \in BOOLEAN
          /\ ref.host \in Seq(STRING \ {":", "/"})
          /\ ref.port \in {10 * Number[h] + Number[l] : h, l \in Digits}
          /\ ref.path # <<>> => ref.path[1] = "/"
    /\ ref.kind = "root" => ref.path # <<>> /\ ref.path[1] = "/"
    /\ ref.kind = "beside" /\ ref.path # <<>> =>
          ref.path[1] \notin {"/", "http://", "https://"}

\* A field as HTTP has it: no colon in its name, no line end anywhere, and the
\* spaces before its value no part of it.
WellFormed(f) ==
    /\ f.name \in Seq(STRING \ {":", CR, LF}) \ {<<>>}
    /\ f.pad \in Seq({SP})
    /\ f.value \in Seq(STRING \ {CR, LF})
    /\ f.value # <<>> => f.value[1] # SP

\* A text in which none of them begins a field.
Clean(t) == \A w \in Searched : ~Has(<<w, ":">>, t)

\* Bounds: a word that is searched for begins no field within a value, and ends
\* no name but its own and one that misleads the client; the only transfer
\* encoding is chunked; the digits of a port or of the size of a piece are among
\* Digits.
ASSUME TextConstants ==
    /\ HostSize \in Nat
    /\ Statuses \subseteq STRING \ {CR, LF}
    /\ \A ref \in Start \cup Target : Reference(ref)
    /\ \A f \in Sendable :
          /\ WellFormed(f)
          /\ Clean(f.value)
          /\ f.name = Chunked => f.pad = <<SP>> /\ f.value = <<"chunked">>
    /\ \A f \in Fields :
          /\ "ref" \notin DOMAIN f
          /\ f.name[Len(f.name)] \in Searched =>
                f.name \in {Chunked, <<"Content-", "Location">>}
    /\ \A d \in Data :
          /\ d \in Seq(STRING) \ {<<>>}
          /\ Len(d) \in {16 * Number[h] + Number[l] : h, l \in Digits}

\* Outside is no body, no table and no answer.
ASSUME OutsideConstant ==
    /\ Outside \notin Seq(STRING)
    /\ \A N \in SUBSET {LowerCase(f.name) : f \in Sendable} :
          /\ Outside \notin [N -> Seq(STRING)]
          /\ Outside \notin [kind : {"answer"}, status : Int, body : Seq(STRING),
                            table : [N -> Seq(STRING)]]

TextInit ==
    /\ \E ref \in Start :
          /\ hop = Url(Written(ref))
          /\ meant = Meant(ref, Doubtful)
    /\ hops = 0
    /\ stage = "idle"
    /\ fields = <<>>
    /\ pieces = <<>>
    /\ text = <<>>

StatusLine ==
    /\ hop # Refused
    /\ stage = "idle"
    /\ stage' = "head"
    /\ \E s \in Statuses : text' = <<"HTTP/1.1", s>> \o CRLF
    /\ UNCHANGED <<hop, meant, hops, fields, pieces>>

\* A server sends one Location at most.
SendField ==
    /\ stage = "head"
    /\ Len(fields) < FieldMax
    /\ \E f \in Sendable :
          /\ "ref" \in DOMAIN f => \A i \in DOMAIN fields : "ref" \notin DOMAIN fields[i]
          /\ fields' = Append(fields, f)
          /\ text' = text \o Header(f)
    /\ UNCHANGED <<hop, meant, hops, stage, pieces>>

EndHead ==
    /\ stage = "head"
    /\ stage' = "body"
    /\ text' = text \o CRLF
    /\ UNCHANGED <<hop, meant, hops, fields, pieces>>

IsChunked == \E i \in DOMAIN fields : fields[i].name = Chunked

\* The size of a chunk, and perhaps an extension behind it.
ChunkHead(n) ==
    {(IF n < 16 THEN <<Digit(n)>> ELSE <<Digit(n \div 16), Digit(n % 16)>>) \o ext \o CRLF :
        ext \in {<<>>, <<";", "2">>}}

\* Bound: only the first response has a body.
SendPiece ==
    /\ stage = "body"
    /\ hops = 0
    /\ Len(pieces) < PieceMax
    /\ \E d \in Data :
          /\ pieces' = Append(pieces, d)
          /\ IF IsChunked THEN \E c \in ChunkHead(Len(d)) : text' = text \o c \o d \o CRLF
             ELSE text' = text \o d
    /\ UNCHANGED <<hop, meant, hops, stage, fields>>

EndBody ==
    /\ stage = "body"
    /\ stage' = "done"
    /\ text' = IF IsChunked THEN text \o <<"0">> \o CRLF \o CRLF ELSE text
    /\ UNCHANGED <<hop, meant, hops, fields, pieces>>

Body == FlattenSeq(pieces)

\* The body holds none of the words that are searched for in all of the text.
Innocent == Clean(Body)

\* A field whose name ends like the one that is searched for.
Misleading == \E i \in DOMAIN fields : fields[i].name = <<"Content-", "Location">>

\* What a server means by the response: none but the field Location counts.
MeantNext ==
    LET sent == {i \in DOMAIN fields : "ref" \in DOMAIN fields[i]}
    IN  IF sent = {} \/ Misleading \/ ~Innocent THEN Doubtful
        ELSE Meant(fields[CHOOSE i \in sent : TRUE].ref, meant)

\* The connection ends, early or not, and the client goes where it was sent.
Follow ==
    /\ stage \in {"head", "body", "done"}
    /\ hops < HopMax
    /\ LET r == Read(text)
       IN  /\ r # Outside
           /\ r.kind = "redirect"
           /\ hop' = Redirected(hop, r.value)
    /\ meant' = MeantNext
    /\ hops' = hops + 1
    /\ stage' = "idle"
    /\ fields' = <<>>
    /\ pieces' = <<>>
    /\ text' = <<>>

TextNext == StatusLine \/ SendField \/ EndHead \/ SendPiece \/ EndBody \/ Follow

TextSpec == TextInit /\ [][TextNext]_textvars

-----------------------------------------------------------------------------
(* Properties.                                                             *)

FieldTable ==
    LET last(n) == SelectLastInSeq(fields, LAMBDA f : LowerCase(f.name) = n)
    IN  [n \in {LowerCase(fields[i].name) : i \in DOMAIN fields} |-> fields[last(n)].value]

Redirects ==
    /\ Status(text) = 301
    /\ Misleading \/ \E i \in DOMAIN fields : "ref" \in DOMAIN fields[i]

\* "Parse an URL of the form http://host:port/path" (httpclient.c:594): along
\* a chain of redirections to full URLs, to paths and to names beside the page,
\* the client is where the last server meant, unless the host has no room.
HopIsMeant ==
    meant # Doubtful =>
        \/ hop = meant
        \/ hop = Refused /\ Len(meant.host) + 3 >= HostSize

\* A response that came whole is an answer with the body the server sent, put
\* together from chunks whatever their sizes, data and extensions are.
BodyArrives ==
    stage = "done" /\ Innocent /\ ~Redirects =>
        LET r == Read(text) IN r # Outside /\ r.kind = "answer" /\ r.body = Body

\* A connection that ends early, behind any word, gives the start of what was
\* sent or an error, where what the code does is defined: a size, a line end or
\* an extension that was cut in two is not taken for data.
CutIsPrefix ==
    stage = "done" /\ Innocent =>
        \A n \in DOMAIN text :
            LET r == Read(SubSeq(text, 1, n))
            IN  r # Outside /\ r.kind = "answer" => IsPrefix(r.body, Body)

\* The table made for Lua is the header: its fields, with names in lower case
\* and values without the spaces before them, the last one of a name, and no
\* word of the body.
TableArrives ==
    LET r == Read(text)
    IN  r # Outside /\ r.kind = "answer" => r.table = FieldTable
=============================================================================
