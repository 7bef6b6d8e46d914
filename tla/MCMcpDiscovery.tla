--------------------------- MODULE MCMcpDiscovery ---------------------------
EXTENDS McpDiscovery

Server(name, kind, pages) ==
  [name |-> name, kind |-> kind, target |-> "there", headers |-> {}, pages |-> pages]

OnePage  == <<<<"read", "write">>>>
TwoPages == <<<<"read">>, <<"write">>>>
TooMany  == <<<<"read">>, <<"write">>, <<"list">>, <<"find">>>>
BadPage  == <<<<"read", "">>>>

\* Sanitised, "a/b" and "a_2fb" are one name.  Two lists hold an entry that is
\* refused, before or after another server was listed.
Lists ==
  {<<>>,
   <<Server("git", "stdio", TwoPages), Server("web", "http", OnePage)>>,
   <<Server("web", "http", TooMany), Server("git", "stdio", OnePage)>>,
   <<Server("git", "stdio", OnePage), Server("web", "http", TwoPages), Server("a/b", "stdio", OnePage)>>,
   <<Server("a/b", "stdio", OnePage), Server("a_2fb", "stdio", OnePage)>>,
   <<Server("git", "stdio", OnePage), Server("git", "http", OnePage)>>,
   <<Server("git", "stdio", OnePage), Server("web", "sse", OnePage)>>,
   <<Server("git", "stdio", OnePage), [Server("web", "http", OnePage) EXCEPT !.headers = {"mcp-method"}]>>,
   <<Server("git", "stdio", BadPage), Server("web", "http", OnePage)>>}

Names == {"git", "web", "a/b", "a_2fb", "read", "write", "list", "find", ""}
Clean == [n \in Names |-> IF n = "a/b" THEN "a_2fb" ELSE n]
=============================================================================
