----------------------------- MODULE FormItems -----------------------------
(***************************************************************************)
(* One field of a form: the parts of frontend/components/ui/form.tsx over  *)
(* the state that react-hook-form keeps of the field, and FieldError of    *)
(* components/ui/field.tsx over a list of errors.                          *)
(***************************************************************************)
EXTENDS Mounted, Naturals, Sequences

CONSTANTS Messages, NoMessage

\* error: of the field, whose message may be empty; parts: what the item holds beside
\* its label and control; help: the message has a text of its own
Items == [kind : {"item"}, error : {"none"}, help : BOOLEAN,
          parts : SUBSET {"description", "message"}]

Errors == {"none", "empty", "text"}

\* given: FieldError has a list of errors; children: it has a text of its own
FieldErrors == [kind : {"errors"}, given : BOOLEAN, errors : {<<>>}, children : BOOLEAN]

\* the resolver of the form, or setError
Validate(error) ==
    /\ Is("item")
    /\ ui' = [ui EXCEPT !.error = error]

\* the ids that the parts of one item share
UseFormField == [error |-> ui.error # "none", formItemId |-> "item",
                 formDescriptionId |-> "description", formMessageId |-> "message"]

FormItem == {"item"} \cup ui.parts

FormLabel == [error |-> UseFormField.error, htmlFor |-> UseFormField.formItemId]

FormControl ==
    [id |-> UseFormField.formItemId,
     describedBy |-> {UseFormField.formDescriptionId}
         \cup (IF UseFormField.error THEN {UseFormField.formMessageId} ELSE {}),
     invalid |-> UseFormField.error]

FormDescription ==
    IF "description" \in FormItem THEN {UseFormField.formDescriptionId} ELSE {}

\* an error takes the place of the text, even if it says nothing
FormMessage ==
    IF "message" \in FormItem
       /\ (IF UseFormField.error THEN ui.error = "text" ELSE ui.help)
    THEN {UseFormField.formMessageId}
    ELSE {}

\* one more error, perhaps without a message
AddError(message) ==
    /\ Is("errors")
    /\ ui.given
    /\ Len(ui.errors) < 2
    /\ ui' = [ui EXCEPT !.errors = Append(@, message)]

ClearErrors ==
    /\ Is("errors")
    /\ ui' = [ui EXCEPT !.errors = <<>>]

\* the text of one error, or a list, which may have no item and is shown all the same
FieldError ==
    LET messages == {ui.errors[i] : i \in DOMAIN ui.errors} \ {NoMessage} IN
    IF ui.children THEN [alert |-> "children", items |-> {}]
    ELSE IF ~ui.given THEN [alert |-> "nothing", items |-> {}]
    ELSE [alert |-> IF Len(ui.errors) = 1 /\ messages # {} THEN "text" ELSE "list",
          items |-> messages]

FormNext ==
    \/ \E error \in Errors : Validate(error)
    \/ \E message \in Messages \cup {NoMessage} : AddError(message)
    \/ ClearErrors
=============================================================================
