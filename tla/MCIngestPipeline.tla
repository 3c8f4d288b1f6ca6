-------------------------- MODULE MCIngestPipeline --------------------------
\* Four contents of the three kinds and a name that is no SHA-256, two URLs, two promised
\* SHA-256s, and three local files, two of them copies of one program.
EXTENDS IngestPipeline

CONSTANTS good, tool, stub, broken, other, url1, url2

KindOf == [c \in {good, tool, stub, broken, other} |->
             CASE c = stub -> "mz" [] c = broken -> "odd" [] OTHER -> "pe"]
Served == [u \in {url1, url2} |-> IF u = url1 THEN tool ELSE broken]

BySha(c) == [sha |-> c, url |-> NoUrl, label |-> 1]
ByUrl(u) == [sha |-> NoContent, url |-> u, label |-> 0]
Listed == {BySha(good), BySha(broken), ByUrl(url1), ByUrl(url2)}
File(n, c) == [name |-> n, content |-> c]
Local == {File(good, good), File(tool, tool), File(other, tool)}
=============================================================================
