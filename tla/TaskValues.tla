------------------------------- MODULE TaskValues -------------------------------
(***************************************************************************)
(* The conversions a task's result goes through on its way from the engine *)
(* to the generator: wrap_ok, wrap_err and select_result of                *)
(* src/handlers.rs, JSON.parse in nextStep, the Error of                   *)
(* driveStepWithError and applyTypedParsing of lib/duroxide.js.            *)
(*                                                                         *)
(* A text is either the JSON rendering of a value or raw, which is to say  *)
(* not JSON.  A JavaScript value is an atom (all that is neither string    *)
(* nor built by the bridge), a string, an array or an object.  serde_json  *)
(* and JSON.parse are taken to read the same texts, to the same values.    *)
(***************************************************************************)
Raw(x) == [raw |-> x]
Json(v) == [json |-> v]

Atom(a) == [atom |-> a]
Str(text) == [str |-> text]
Arr(items) == [arr |-> items]
Obj(fields) == [obj |-> fields]
Null == Atom("null")

IsJson(text) == "json" \in DOMAIN text
IsStr(v) == "str" \in DOMAIN v
IsArr(v) == "arr" \in DOMAIN v
IsObj(v) == "obj" \in DOMAIN v

\* TaskResult: the task succeeded with, or failed with, a text.
Ok(text) == [ok |-> text]
Err(text) == [err |-> text]
Failed(result) == "err" \in DOMAIN result

\* A text as a value: what it renders, or the text itself if it is not JSON.
Parsed(text) == IF IsJson(text) THEN text.json ELSE Str(text)

-----------------------------------------------------------------------------
(* Rust.                                                                    *)

\* wrap_ok and wrap_err, as join reads them back.
Wrapped(result) == IF Failed(result) THEN Obj([err |-> Parsed(result.err)])
                                     ELSE Obj([ok |-> Parsed(result.ok)])

\* Mutant: a failed winner becomes a value.
FailedWinnerAsValue(index, result) ==
  Ok(Json(Obj([index |-> index,
               value |-> Parsed(IF Failed(result) THEN result.err ELSE result.ok)])))

select_result(index, result) ==
  IF Failed(result) THEN result
  ELSE Ok(Json(Obj([index |-> index, value |-> Parsed(result.ok)])))

-----------------------------------------------------------------------------
(* JavaScript.                                                              *)

tryJsonParse(v) == IF IsStr(v) THEN Parsed(v.str) ELSE v

typedItem(item) ==
  IF IsObj(item) /\ "ok" \in DOMAIN item.obj
  THEN Obj([item.obj EXCEPT !.ok = tryJsonParse(@)])
  ELSE IF IsObj(item) /\ "err" \in DOMAIN item.obj
       THEN Obj([item.obj EXCEPT !.err = tryJsonParse(@)])
       ELSE item

\* Of the task types that return a result of other code, "activity" stands
\* for activityWithRetry and the subOrchestration types too.
applyTypedParsing(value, type) ==
  CASE type = "activity" -> tryJsonParse(value)
    [] type = "join" /\ IsArr(value) ->
         Arr([k \in DOMAIN value.arr |-> typedItem(value.arr[k])])
    [] type = "select" /\ IsObj(value) ->
         Obj([value.obj EXCEPT !.value = tryJsonParse(@)])
    [] OTHER -> value

\* The message of the Error that is thrown into the generator.
ErrorMessage(v) == IF IsStr(v) THEN v.str ELSE Json(v)

\* gen.next(value) or gen.throw(error): what nextStep feeds to the generator.
Fed(result, type, typed) ==
  IF Failed(result)
  THEN [throw |-> ErrorMessage(Parsed(result.err))]
  ELSE [next |-> IF typed THEN applyTypedParsing(Parsed(result.ok), type)
                          ELSE Parsed(result.ok)]
-----------------------------------------------------------------------------
(* The author's view: the value a task of a type that succeeded stands for. *)

ValueAs(type, outcome) ==
  CASE type = "timer" -> Null
    [] type = "getValueFromInstance" -> outcome.ok
    [] type = "newGuid" -> Str(outcome.ok)
    [] OTHER -> Parsed(outcome.ok)
=============================================================================
