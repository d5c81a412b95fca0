---------------------------- MODULE MCCatalogFile ----------------------------
(***************************************************************************)
(* Two addresses, two urls with a plus that are read back as one id, whose  *)
(* name is that of an address, and arches with a dot and with a dash.       *)
(***************************************************************************)
EXTENDS CatalogFile

MCAddresses == {<<"/", "/", "a", "-", "c">>, <<"b">>}
MCLocations == {<<"https://", "a", "+", "/", "b">>, <<"a", "+", "b">>}
MCArches == {None, <<"x", ".", "y">>, <<"x", "-", "y">>}
MCHashes == {<<"0">>, <<"1">>}
=============================================================================
