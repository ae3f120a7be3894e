---------------------------- MODULE MCPublishing ----------------------------
(* Two categories, one of them with two editions: a girls' size that is scoped  *)
(* to a department, which becomes required; a size that leaves the enum.        *)
EXTENDS Publishing

Anywhere(value) == [value |-> value, scopes |-> {}]
Scoped(value, gate, values) == [value |-> value, scopes |-> {[gate |-> gate, values |-> values]}]

Selection(name, required, rules) ==
  [name |-> name, mode |-> "SELECTION_ONLY", required |-> required, rules |-> rules,
   maxLength |-> 9]

Brand == [name |-> "Brand", mode |-> "FREE_TEXT", required |-> TRUE, rules |-> {},
          maxLength |-> 5]

Department(required) ==
  Selection("Department", required, {Anywhere("Women"), Anywhere("Girls")})

Shirts(required, sizes) ==
  {Brand, Department(required),
   Selection("Size", TRUE, {Anywhere(s) : s \in sizes} \cup
                           {Scoped("116", "Department", {"Girls"})})}

MCEditions ==
  [shirts |-> {Shirts(FALSE, {"M", "40"}), Shirts(TRUE, {"M"})},
   shoes |-> {{Brand, Selection("Size", TRUE, {Anywhere("40")})}}]

NoExtra == [name \in {} |-> "M"]

Draft(size, brand, extra, condition) ==
  [size |-> size, brand |-> brand, extra |-> extra, condition |-> condition]

MCDrafts ==
  {Draft("M", "acme", NoExtra, TRUE), Draft("40", "acme", NoExtra, TRUE),
   Draft("116", "acme", NoExtra, TRUE),
   Draft("116", "acme", [Department |-> "Women"], TRUE),
   Draft("116", "acme", [Department |-> "Girls"], TRUE),
   Draft("116", "acme", [Department |-> "Men"], TRUE),
   Draft("40", "acme ltd", [Size |-> "M"], TRUE), Draft("M", "acme", NoExtra, FALSE)}

MCLength ==
  [value \in {"M", "40", "116", "acme", "acme ltd", "Women", "Girls", "Men"} |->
     IF value = "acme ltd" THEN 8 ELSE 4]
=============================================================================
