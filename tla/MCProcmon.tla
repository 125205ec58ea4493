------------------------------ MODULE MCProcmon -----------------------------
\* procmon for TLC: connections with three or four requests that between them
\* have bodies of 0, 1 and 2 bytes, a Content-Length that is no number,
\* repeated Connection headers, both versions, an unknown path, a bad request
\* line and a header section ended by a line that is not empty.
EXTENDS Procmon

Req(path, version, headers, body, code, keep) ==
    [line |-> RequestLine(path, version), headers |-> headers, end |-> <<>>,
     body |-> body, code |-> code, keep |-> keep]

Get == Req("/", "kHttp11", <<>>, 0, 200, TRUE)

Post(n, value) ==
    Req("/io", "kHttp11", <<Header("Content-Length", value)>>, n, 200, TRUE)

Old == Req("/cpu.png", "kHttp10", <<Header("Host", "h")>>, 0, 200, FALSE)

OldKeep == Req("/", "kHttp10", <<Header("Connection", "close"),
                                 Header("Connection", "Keep-Alive")>>, 0, 200, TRUE)

Close == Req("/", "kHttp11", <<Header("Connection", "close")>>, 0, 200, FALSE)

Unknown == Req("/none", "kHttp11", <<>>, 0, 404, FALSE)

Bad == [Get EXCEPT !.line = Text, !.code = 400, !.keep = FALSE]

Unended == [Get EXCEPT !.end = <<Text>>]

MCNumber == [v \in {"0", "1", "2"} |-> CASE v = "0" -> 0 [] v = "1" -> 1 [] v = "2" -> 2]

MCScripts == {<<Post(2, "2"), Get, Bad, Get>>, <<Post(1, "1"), Old, Get>>,
              <<OldKeep, Post(0, "0"), Unknown, Get>>,
              <<Post(0, "x"), Unended, Close, Get>>}
=============================================================================
