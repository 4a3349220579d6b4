------------------------------ MODULE MCEntities ------------------------------
(* Constants for model checking Entities. *)
EXTENDS Entities

FieldNames == {"SOC", "Soc", "SN", "Ppv1", "Ppv2", "PpvTotal"}
NumberedNames(prefix) == IF prefix = "Ppv" THEN {"Ppv1", "Ppv2"} ELSE {}

IDs == {"soc", "s_o_c", "sn", "s_n", "ppv1", "ppv2", "pv_power_total", "ppv_total"}
IDOf(field) ==
    CASE field = "SOC" -> "s_o_c" [] field = "Soc" -> "soc" [] field = "SN" -> "s_n"
      [] field = "Ppv1" -> "ppv1" [] field = "Ppv2" -> "ppv2" [] OTHER -> "ppv_total"

S(field, id, diagnostic) == [field |-> field, object_id |-> id, diagnostic |-> diagnostic]
SomeBaseSensors == <<S("SOC", "soc", FALSE), S("PpvTotal", "pv_power_total", FALSE)>>

M(defaults, sensors_) == [include_defaults |-> defaults, sensors |-> sensors_]
SomeMappings ==
    { M(FALSE, <<>>),
      M(TRUE, <<S("SN", "sn", TRUE), S("Ppv1", None, FALSE)>>),
      M(TRUE, <<S("Soc", None, FALSE)>>),                \* its id is taken
      M(FALSE, <<S("Soc", None, TRUE), S("SOC", None, FALSE)>>),
      M(FALSE, <<S("SOC", "soc", TRUE), S("PpvTotal", "soc", FALSE)>>),
      M(FALSE, <<S(None, "sn", FALSE)>>) }

SomeMessages ==
    { [SN |-> Text, SOC |-> 5],
      [SN |-> Text],
      [SOC |-> Text, Ppv1 |-> 2],
      [Ppv1 |-> 3, Ppv2 |-> 4, PpvTotal |-> 1],
      [PpvTotal |-> 9],
      [Ppv2 |-> 8],                                      \* overflows with Ppv1
      [Ppv2 |-> NonFinite] }
=============================================================================
