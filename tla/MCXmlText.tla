------------------------------- MODULE MCXmlText -------------------------------
EXTENDS XmlText

Node(tag, attrs, value, kids) ==
    [tag |-> tag, attrs |-> attrs, value |-> value, kids |-> kids, short |-> FALSE, cdata |-> <<>>]
Short(tag, attrs) == [Node(tag, attrs, <<>>, <<>>) EXCEPT !.short = TRUE]

Values == {<<>>, <<"v">>, <<"v", " ", "w">>, <<"&lt;", "v">>, <<"v", "=", "it", "'", "s">>,
           <<"&amp;", "lt;", "?">>, <<"v", "/">>}
Attrs == {<<>>} \cup {<< <<"a", v>> >> : v \in Values}
         \cup {<< <<"a", v>>, <<"b", w>> >> : v, w \in {<<"v">>, <<"v", " ", "w">>, <<>>}}
ValueTexts == {<<>>, <<"v">>, <<"v", " ", "w">>, <<"&lt;", "v", "&amp;", "lt;">>}

LeafTrees == {Node("x", as, v, <<>>) : as \in Attrs, v \in ValueTexts} \cup {Short("x", as) : as \in Attrs}
          \cup {[Node("x", <<>>, <<>>, <<>>) EXCEPT !.cdata = <<"v", "<", "y", ">">>]}
Few == {Node("x", <<>>, <<"v">>, <<>>), Short("x", << <<"a", <<"v">>>> >>), Node("x", <<>>, <<>>, <<>>)}
MCDocuments == {Node("y", <<>>, <<>>, <<k>>) : k \in LeafTrees}
               \cup {Node("y", <<>>, <<>>, <<k, m>>) : k, m \in Few}

Layout(gap, space, tail, pad) ==
    [gap |-> gap, space |-> space, tail |-> tail, pad |-> pad, prolog |-> <<>>, first |-> <<>>]
Plain == Layout(<<>>, <<" ">>, <<>>, <<>>)
MCLayouts ==
    {Plain,
     [Layout(<<"\n", "\t">>, <<"\n", " ">>, <<" ">>, <<"\n", " ">>) EXCEPT
        !.prolog = <<"<", "?", "xml", " ", "version", "=", "\"", "1", "\"", "?", ">", "\n">>,
        !.first = <<[name |-> <<"xml">>, value |-> <<>>, cdata |-> <<>>,
                     attrs |-> << <<(<<"version">>), <<"1">>>> >>]>>],
     Layout(<<"<!--", "c", ">", "-->", "\n">>, <<" ", " ">>, <<>>, <<" ">>)}
=============================================================================
