---------------------------- MODULE MCDhtSearch ----------------------------
(***************************************************************************)
(* DhtSearch with five nodes at four endpoints: two ids at one endpoint,   *)
(* one id at two, and one endpoint of the other IP version.                *)
(***************************************************************************)
EXTENDS DhtSearch

MCEntries == {<<0, "a">>, <<1, "b">>, <<1, "a">>, <<2, "c">>, <<3, "v6">>}
MCStarts == {<< >>, <<<<1, "b">>>>, <<<<2, "c">>, <<1, "a">>, <<1, "b">>>>}
MCReplies == {<< >>, <<<<0, "a">>, <<1, "b">>>>, <<<<2, "c">>, <<1, "a">>>>,
              <<<<3, "v6">>, <<1, "b">>>>}
=============================================================================
