---------------------------- MODULE MCIOManager ----------------------------
EXTENDS IOManager

MCInterests == {<<3, "READ">>, <<3, "WRITE">>, <<2, "READ">>}
MCArrivals == {<<3, "READ">>, <<3, "WRITE">>}
=============================================================================
