------------------------- MODULE MCTelemetryObjects -------------------------
EXTENDS TelemetryObjects

Str(v) == [type |-> "STRING", val |-> v]

MCKinds == {"span", "metric", "log"}
MCTexts == {NULL, <<3>>, <<BadOctet>>}

\* One value of each type, and one of each kind that is refused.
MCValues ==
    {Str(NULL), [type |-> "BYTES", val |-> <<>>], [type |-> "BYTES", val |-> NULL],
     [type |-> "INT64", val |-> <<-2>>],
     [type |-> "ARRAY", val |-> <<Str(<<6>>), [type |-> "DOUBLE", val |-> <<3>>]>>],
     [type |-> "ARRAY", val |-> <<Str(<<6>>), Str(<<BadOctet>>)>>],
     [type |-> "KVLIST", val |-> <<[key |-> <<7>>, type |-> "BOOL", val |-> <<0>>],
                                   [key |-> <<8>>, type |-> "BYTES", val |-> <<0>>]>>]}
MCAttributes ==
    ({<<1>>} \X MCValues)
    \cup {<<<<2>>, Str(<<4, 5>>)>>, <<<<3>>, [type |-> "ARRAY", val |-> <<>>]>>,
          <<NULL, Str(<<4>>)>>, <<<<BadOctet>>, Str(<<4>>)>>}
MCSubAttributes == {<<<<1>>, Str(<<4>>)>>, <<<<2>>, [type |-> "INT64", val |-> <<0>>]>>}
MCMaxChanges == [span |-> 3, metric |-> 2, log |-> 2]
MCIds == {NULL, 0, 1}
MCTimes == {NULL, 0, 300}
MCMeasured == {-1, 0, 2}
MCBoundLists == {NULL, <<0, 1>>}
MCBucketLists == {NULL, <<1, 0>>}
MCResources ==
    {[service |-> <<1>>, serviceKey |-> <<9>>,
      attrs |-> <<[NoAttr EXCEPT !.key = <<>>], [NoAttr EXCEPT !.key = <<2>>]>>,
      schemaUrl |-> <<3>>, scope |-> <<6>>, version |-> <<5>>]}

\* Fields the reader does not know, one of every wire type and one that has a
\* known number with another wire type.
MCUnknown == {<<>>, Scalar([num |-> 9], FIXED64, LittleEndian(1, 8)),
              Scalar([num |-> 1], FIXED32, LittleEndian(7, 4)),
              Scalar([num |-> 2], VARINT, Varint(300)), Bytes([num |-> 20], <<1, 8>>)}
MCAnswers == [rejected : {-1, 0, 2, 300}, message : {<<>>, <<3>>},
              inside : MCUnknown, after : MCUnknown]

\* A PartialSuccess that rejects 2, in a field with the number 2^32 + 1.
MCWideField == Field("raw", 0, LEN, <<138, 128, 128, 128, 128, 1, 2, 8, 2>>)
MCWideAnswers == [rejected : {0}, message : {<<>>}, inside : {<<>>}, after : {<<>>, MCWideField}]
MCFewChanges == [span |-> 1, metric |-> 1, log |-> 1]
=============================================================================
