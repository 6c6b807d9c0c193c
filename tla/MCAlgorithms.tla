---------------------------- MODULE MCAlgorithms ----------------------------
(* The inputs: small, but every branch of the functions is taken by some.   *)
EXTENDS Algorithms

-----------------------------------------------------------------------------
(* Files: three words with every separator between, and two short pages.    *)
MCWords == {<<"w">>, <<"w", "w", "w">>, <<"w", ".", "q">>, <<"d", "d">>}
MCGaps == {<<"sp">>, <<"nl">>, <<"nl", "sp", "nl">>}
MCShort == {<<>>, <<"w">>, <<"sp", "w">>, <<"w", "sp">>, <<"w", "w", "sp", "w">>}

MCPages ==
  {<<a \o g \o b \o h \o c>> : a, b, c \in MCWords, g, h \in MCGaps}
    \cup {<<a, b, c>> : a, b, c \in MCShort}

MCSizes ==
  {[counter |-> "conservative", target |-> 2, overlap |-> 1, max |-> 2],
   [counter |-> "conservative", target |-> 3, overlap |-> 2, max |-> 4],
   [counter |-> "whole", target |-> 4, overlap |-> 2, max |-> 3]}

MCChunkCalls == {size @@ [op |-> "chunk", pages |-> pages] : size \in MCSizes, pages \in MCPages}

-----------------------------------------------------------------------------
(* Tables of three chunks, nearest first, two of them as near or not, and   *)
(* an answer that cites some.                                               *)
MCChunks ==
  [source : {1, 2}, words : {{1}, {1, 2}, {2, 3}}, tokens : {1, 2}, held : {"here"},
   model : {"m"}]
    \cup [source : {1}, words : {{1}}, tokens : {1}, held : {"here", "away", "failed"},
          model : {"m", "n"}]

MCTables ==
  {[i \in 1 .. 3 |-> t[i] @@ [near |-> near[i]]] :
     t \in MCChunks \X MCChunks \X MCChunks, near \in {<<3, 2, 1>>, <<2, 2, 1>>}}

MCRetrievalCalls ==
  {[op |-> "answer", chunks |-> t, topK |-> k, floor |-> 2 - (k % 2), budget |-> k + 1,
    response |-> <<2, 0, 1, 2, 3>>] : t \in MCTables, k \in {1, 2}}

-----------------------------------------------------------------------------
(* Documents of two blocks, every range in them.                            *)
MCInline ==
  {<<Text(<<"a", "sp">>, {}), Text(<<"wide", "b">>, {"bold"})>>,
   <<Text(<<"a">>, {}), HardBreak, Text(<<"b">>, {})>>,
   <<>>}
MCPara == {Block("paragraph", inline) : inline \in MCInline}
MCBlocks ==
  MCPara
    \cup {[type |-> "horizontalRule"], Block("codeBlock", <<Text(<<"a", "nl", "b">>, {})>>)}
    \cup {Block("bulletList", <<Block("listItem", <<p>>)>>) :
            p \in {Block("paragraph", inline) : inline \in MCInline \ {<<>>}}}
    \cup {Block("blockquote", <<Block("paragraph", <<Text(<<"a">>, {})>>),
                                Block("heading", <<Text(<<"sp", "b">>, {})>>)>>)}

MCDocs == {Block("doc", <<a, b>>) : a, b \in MCBlocks} \cup {Block("doc", <<>>)}

MCAnswers == {<<"x">>, <<"sp", "x", "nl", "sp", "nl", "y", "nl", "z">>}

(* A position between the halves of a pair is none a client has.            *)
MCPositions(doc) ==
  LET flat == FlatContent(doc) IN
  {p \in 0 .. Len(flat) : p = Len(flat) \/ Len(flat[p + 1]) # 3 \/ flat[p + 1][2] = 1}

MCQueryCalls ==
  UNION {
    {[op |-> "apply", doc |-> d, mode |-> "rewrite", from |-> r[1], to |-> r[2],
      response |-> a, budget |-> n] :
       r \in {q \in MCPositions(d) \X MCPositions(d) : q[1] < q[2]}, a \in MCAnswers, n \in {5}}
      \cup {[op |-> "apply", doc |-> d, mode |-> m, from |-> p, to |-> p,
             response |-> a, budget |-> n] :
              m \in {"ask", "continue"}, p \in {-1} \cup MCPositions(d), a \in MCAnswers, n \in {0, 3}}
    : d \in MCDocs}

-----------------------------------------------------------------------------
(* Documents of up to three blocks, lists up to three levels deep.          *)
MCP(text) == [type |-> "paragraph", text |-> text]
MCEntry(blocks) == [checked |-> FALSE, blocks |-> blocks]
MCList(type, start, items) == [type |-> type, start |-> start, items |-> items]

MCLeaf == {MCList("bulletList", 1, <<MCEntry(<<MCP("a")>>)>>),
           MCList("orderedList", 3, <<MCEntry(<<MCP("b")>>), MCEntry(<<MCP("c")>>)>>),
           MCList("taskList", 1, <<[checked |-> TRUE, blocks |-> <<MCP("d")>>], MCEntry(<<MCP("e")>>)>>)}

MCEntries(lists) ==
  {MCEntry(<<MCP("f")>>), MCEntry(<<MCP("g"), MCP("h")>>)}
    \cup {MCEntry(<<MCP("i"), l>>) : l \in lists}
    \cup {MCEntry(<<MCP("j"), MCP("k"), l>>) : l \in lists}
    \cup {MCEntry(<<MCP("l"), l, m>>) : l, m \in lists}

MCNested(lists) ==
  {MCList("orderedList", 1, <<d, e>>) : d, e \in MCEntries(lists)}

MCDeep == {MCList("bulletList", 1, <<MCEntry(<<MCP("m"), l>>)>>) : l \in MCNested(MCLeaf)}

MCSimpleBlocks ==
  MCLeaf \cup {MCP("n"), [type |-> "heading", text |-> "o"], [type |-> "pageBreak"],
               [type |-> "horizontalRule"], [type |-> "codeBlock", lines |-> <<"p", "q">>],
               [type |-> "blockquote", blocks |-> <<MCP("r"), MCP("s")>>]}

MCWordDocs ==
  {<<a, b, c>> : a, b, c \in MCSimpleBlocks}
    \cup {<<l, b>> : l \in MCNested(MCLeaf) \cup MCDeep, b \in MCLeaf \cup {MCP("t")}}
    \cup {<<[type |-> "blockquote", blocks |-> <<MCP("u"), l>>], b>> : l \in MCLeaf, b \in MCSimpleBlocks}

MCWordCalls == {[op |-> "convert", doc |-> d] : d \in MCWordDocs}

-----------------------------------------------------------------------------
(* Tables of three rows, some ragged, some with rows wholly covered.        *)
MCSpans == {<<1, 1>>, <<1, 2>>, <<2, 1>>, <<2, 2>>, <<1, 3>>}
MCSpanRows == {<<>>} \cup {<<a>> : a \in MCSpans} \cup {<<a, b>> : a, b \in {<<1, 1>>, <<1, 2>>, <<2, 1>>}}
                \cup {<<<<1, 2>>, <<1, 1>>, <<1, 1>>>>}

MCTable(spans) ==
  [r \in 1 .. 3 |-> [k \in DOMAIN spans[r] |->
     [text |-> <<"a", "b", "c">>[r] \o <<"1", "2", "3">>[k], head |-> r = 1,
      colspan |-> spans[r][k][1], rowspan |-> spans[r][k][2]]]]

MCTableCalls ==
  {[op |-> "table", rows |-> t] :
     t \in {u \in {MCTable(s) : s \in MCSpanRows \X MCSpanRows \X MCSpanRows} :
              NoOverlap(u) /\ Layout(u) # <<>>}}
=============================================================================
