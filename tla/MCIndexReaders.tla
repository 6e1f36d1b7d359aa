--------------------------- MODULE MCIndexReaders ---------------------------
(* The rows of the index_readers run: a device that changes its address, and
   one without a host.                                                     *)
EXTENDS IndexReaders, TLC

MCHostOf == 1 :> "fw" @@ 2 :> NoHost @@ 3 :> "fw" @@ 4 :> NoHost

MCAddressOf == 1 :> "10.0.0.1" @@ 2 :> "10.0.0.9" @@ 3 :> "10.0.0.2" @@ 4 :> "10.0.0.9"
=============================================================================
