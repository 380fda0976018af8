------------------------------ MODULE Responses ------------------------------
(***************************************************************************)
(* The writers an answer passes on its way out: gzipWriter, then           *)
(* SignWriter, then net/http's own.  An answer is what of it the client    *)
(* can see, and the headers that would be sent if it were sent now.        *)
(***************************************************************************)
Headers == [gzip : BOOLEAN,   \* Content-Encoding: gzip
            sign : BOOLEAN]   \* HashSHA256

Answers == [signs : BOOLEAN, zips : BOOLEAN,   \* the writers there are
            header : Headers,                  \* the header map
            sent : Headers,                    \* what was sent of it ...
            status : {0, 200, 400, 404, 500},  \* ... with this, 0 for not yet
            body : SUBSET {"text", "gzip"}]    \* what was written after it

NoHeaders == [gzip |-> FALSE, sign |-> FALSE]

Fresh(signs, zips) ==
  [signs |-> signs, zips |-> zips, header |-> NoHeaders, sent |-> NoHeaders,
   status |-> 0, body |-> {}]

\* The first call freezes the headers, later ones are superfluous.
WriteHeader(a, status) ==
  IF a.status # 0 THEN a
  ELSE [a EXCEPT !.status = status, !.sent = a.header]

\* SignWriter sets its header with every write, then passes it on; a write
\* without a status stands for 200.
Write(a, data) ==
  LET signed == IF a.signs THEN [a EXCEPT !.header.sign = TRUE] ELSE a
  IN [WriteHeader(signed, 200) EXCEPT !.body = @ \cup {data}]

\* http.Error, called by a middleware below the compression.
Error(a, status) == Write(WriteHeader(a, status), "text")

\* Mutant of ZipHeader: only an answer with 200 is announced as compressed.
ZipHeaderOk(a, status) ==
  WriteHeader(IF a.zips /\ status = 200 THEN [a EXCEPT !.header.gzip = TRUE]
              ELSE a, status)

\* The methods of gzipWriter; without one the calls go to the next writer.
ZipHeader(a, status) ==
  WriteHeader(IF a.zips THEN [a EXCEPT !.header.gzip = TRUE] ELSE a, status)

ZipWrite(a) ==
  IF a.zips THEN Write(ZipHeader(a, 200), "gzip") ELSE Write(a, "text")

ZipError(a, status) == ZipWrite(ZipHeader(a, status))

\* Closing the compressor writes its trailer, and its header, if it has not
\* been used.
ZipClose(a) == IF a.zips THEN Write(a, "gzip") ELSE a
=============================================================================
