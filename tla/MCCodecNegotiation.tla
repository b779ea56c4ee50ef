------------------------- MODULE MCCodecNegotiation -------------------------
(* Lists of endpoints: none, one, each order of two codecs with something  *)
(* between, before or after them, more endpoints than places, a codec      *)
(* twice, and endpoints that never answer with a codec of ours; and a few  *)
(* of them where one search follows another.                               *)
EXTENDS CodecNegotiation

MCOffers ==
    {<< >>, <<"other">>, <<"unsup">>, <<"sbc">>,
     <<"aac", "sbc">>, <<"sbc", "unsup">>, <<"sbc", "nocodec">>,
     <<"sbc", "other", "aac">>, <<"sbc", "sbc", "aac">>,
     <<"unsup", "aac", "nocodec">>}

MCFewOffers ==
    {<< >>, <<"aac", "nocodec">>, <<"unsup", "other", "sbc">>, <<"sbc", "sbc", "aac">>}
=============================================================================
