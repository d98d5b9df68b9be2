----------------------- MODULE MCProtocolConnection -----------------------
(* Instances of ProtocolConnection for TLC. *)
EXTENDS ProtocolConnection

\* The batches of driver/pq3.py.
execute == <<"Query">>
prepare == <<"Close", "Parse", "Describe", "Synchronize">>
first   == <<"Bind", "Execute", "Close", "Synchronize">>
portal  == <<"Bind", "Execute", "Synchronize">>
rows    == <<"Bind", "Execute", "Bind", "Execute", "Synchronize">>

Statements == {execute, prepare, first, portal, rows}
Streams    == {execute, portal}
Copies     == {portal}

\* What a statement may return; a Query may hold two of them.
SomeResults ==
  { <<"Complete">>, <<"Null">>, <<"TupleDescriptor", "Tuple", "Complete">>,
    <<"Complete", "TupleDescriptor", "Complete">> }
SomeRows ==
  { <<"Complete">>, <<"Null">>, <<"Tuple", "Notice", "Tuple", "Suspension">>,
    <<"CopyToBegin", "Notice", "CopyData", "CopyDone", "Complete">> }

\* Rows and COPY data in both directions.
CopyQuery ==
  { <<"Complete">>, <<"CopyFromBegin">>, <<"CopyToBegin", "CopyData", "CopyDone", "Complete">> }
CopyExecute ==
  { <<"CopyFromBegin">>, <<"CopyToBegin", "CopyData", "CopyData", "CopyDone", "Complete">>,
    <<"Tuple", "Tuple", "Complete">> }
CopyInQuery == { <<"Complete">>, <<"CopyFromBegin">> }
CopyInExecute == { <<"CopyFromBegin">> }
=============================================================================
