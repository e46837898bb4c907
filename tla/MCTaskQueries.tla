--------------------------- MODULE MCTaskQueries ---------------------------
(* Messages and masks that callers pass: each entity with and without an id, *)
(* with one value that the tables do not have, and clients old and new.      *)
EXTENDS TaskQueries, TLC

MCInputs ==
  [ Client |-> [ id : {0, 1}, Name : {2}, Quota : {2} ],
    ClientUser |->
      [ id : {0, 1}, Email : {2}, ClientId : {0}, Client : {0, 2} ],
    Admin |-> [ id : {0, 1}, Email : {2}, Password : {2} ],
    DataRecognitionTask |->
      [ id : {0, 1}, Status : {2}, Client : {0, 1}, RecognitionResult : {2} ] ]

MCMasks ==
  [ Client |-> { {"Name"}, {"Quota"} },
    ClientUser |-> { {"Email"}, {"Client.Name"}, {"Client.Id", "Client.Name"} },
    Admin |-> { {"Email"}, {"Password"} },
    DataRecognitionTask |-> { {"Status"}, {"Client"} } ]

MCPageSizes == {-1, 1, 2}

CallerSymmetry == Permutations(Callers)
=============================================================================
