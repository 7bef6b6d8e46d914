------------------------------- MODULE CallIds --------------------------------
(* Ids of tool calls.  A call comes with its own id or gets one: the frame *)
(* decoder and the text parser each count from zero and both format the    *)
(* number as gemini_call_<n>.                                              *)
EXTENDS Naturals

NoId == <<"none", 0>>
Own(n) == <<"own", n>>
Allocated(n) == <<"gemini_call_", n>>
===============================================================================
