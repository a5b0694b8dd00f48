---------------------------- MODULE MCOtlpExport ----------------------------
(* Small sets of metrics and requests for the runs of OtlpExport.          *)
EXTENDS OtlpExport

Histogram == [name |-> <<"lat">>, kind |-> "histogram", job |-> "a"]
DeniedHistogram == [name |-> <<"lat">>, kind |-> "histogram", job |-> "b"]
Nameless == [name |-> <<>>, kind |-> "gauge", job |-> "a"]
Summary == [name |-> <<"lat">>, kind |-> "summary", job |-> "a"]
SumGauge == [name |-> <<"lat", "_sum">>, kind |-> "gauge", job |-> "a"]
Counter == [name |-> <<"req">>, kind |-> "counter", job |-> "a"]
TotalCounter == [name |-> <<"req", "_total">>, kind |-> "counter", job |-> "a"]

(* A histogram exported by two jobs, one of them denied; a summary of the  *)
(* same name, hence the same variants, in another request or in the same;  *)
(* a gauge that has the name of a variant, alone or beside either.         *)
Mixed == {Histogram, DeniedHistogram, Summary, SumGauge, Nameless}
MixedRequests ==
  {{Histogram, DeniedHistogram}, {Summary}, {Histogram, Summary},
   {SumGauge}, {Histogram, SumGauge}, {Summary, SumGauge}, {Nameless}}

(* A counter, exported by concurrent calls under two names with one base   *)
(* name.                                                                   *)
Fresh == {Counter, TotalCounter}
FreshRequests == {{Counter}, {TotalCounter}}

(* A summary. *)
Plain == {Summary}
PlainRequests == {{Summary}}
=============================================================================
