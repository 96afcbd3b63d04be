------------------------------ MODULE MCTsInfo ------------------------------
(* Two publishers, with the same pids or others: in the second layout the  *)
(* PMT and the video change places.  The contents are the cases the scan   *)
(* for the parameter sets tells apart: none, both with and without more    *)
(* behind a short start code, too much of it, one of the two, and the two  *)
(* in the wrong order.                                                     *)
EXTENDS SLSTsInfo

Unit(type, long) == [type |-> type, long |-> long]

Sps == Unit("sps", TRUE)
Pps == Unit("pps", TRUE)
Slice == Unit("other", FALSE)
Access == Unit("other", TRUE)

MCContents ==
    { << >>, <<Access, Slice>>, <<Sps>>, <<Pps>>, <<Pps, Sps>>,
      <<Access, Sps, Pps, Access>>, <<Sps, Pps, Slice>>, <<Sps, Pps, Slice, Slice>>,
      <<Unit("sps", FALSE), Pps>> }

Usual   == [pmt |-> 1, video |-> 2, audio |-> 3]
Crossed == [pmt |-> 2, video |-> 1, audio |-> 4]

MCLayouts == {Usual, Crossed}
=============================================================================
