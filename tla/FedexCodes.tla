----------------------------- MODULE FedexCodes -----------------------------
(***************************************************************************)
(* What the program knows about a FedEx code: the local statuses           *)
(* (common/enums/shipment-status-type.enum.ts), the two code tables that   *)
(* turn a FedEx event into one of them, and the status sets the different  *)
(* writers of a shipment consult.  A code is a string; NoCode stands for   *)
(* the absent or empty one.  No state.                                                        *)
(***************************************************************************)
EXTENDS Naturals

ShipmentStatusType ==
  {"RECOLECCION", "RECIBIDO_EN_BODEGA", "PENDIENTE", "EN_RUTA", "EN_TRANSITO",
   "ENTREGADO", "NO_ENTREGADO", "DESCONOCIDO", "RECHAZADO", "DEVUELTO_A_FEDEX",
   "ES_OCURRE", "ENTREGADO_EN_BODEGA", "EN_BODEGA", "RETORNO_ABANDONO_FEDEX",
   "ESTACION_FEDEX", "LLEGADO_DESPUES", "DIRECCION_INCORRECTA",
   "CLIENTE_NO_DISPONIBLE", "CAMBIO_FECHA_SOLICITADO", "ACARGO_DE_FEDEX",
   "ENTREGADO_POR_FEDEX", "DEMORA_EN_ENTREGA", "EMPRESA_CERRADA",
   "NO_SE_PUDO_RECOLECTAR_EL_COBRO", "RESTRICCION_SEGURIDAD_UBICACION", "OTRO",
   "CAMBIO_DOMICILIO"}

(* Not a status: "this table has no row for the code".                     *)
NoStatus == "-"

(* The code of an event, a row or a header that has none.                  *)
NoCode == "none"

(* TERMINAL_SHIPMENT_STATUSES, the list of the tracking-sync rules.        *)
TERMINAL_SHIPMENT_STATUSES ==
  {"ENTREGADO", "ENTREGADO_POR_FEDEX", "ENTREGADO_EN_BODEGA", "DEVUELTO_A_FEDEX",
   "RETORNO_ABANDONO_FEDEX", "ES_OCURRE", "ACARGO_DE_FEDEX"}

-----------------------------------------------------------------------------
(* The table of the hourly update: a known exception code wins over the    *)
(* derived code, also over DL.                                             *)
LegacyOfException(exc) ==
  CASE exc = "07"                          -> "RECHAZADO"
    [] exc \in {"08", "72"}                -> "CLIENTE_NO_DISPONIBLE"
    [] exc = "67"                          -> "EN_BODEGA"
    [] exc \in {"03", "A12", "A13"}        -> "DIRECCION_INCORRECTA"
    [] exc = "05"                          -> "RESTRICCION_SEGURIDAD_UBICACION"
    [] exc \in {"41", "11", "71", "DF", "20", "79", "79A"} -> "PENDIENTE"
    [] exc \in {"15", "64"}                -> "ESTACION_FEDEX"
    [] exc \in {"14", "086C"}              -> "RETORNO_ABANDONO_FEDEX"
    [] exc \in {"84", "17"}                -> "CAMBIO_FECHA_SOLICITADO"
    [] exc = "08D"                         -> "NO_ENTREGADO"
    [] exc = "31"                          -> "LLEGADO_DESPUES"
    [] exc = "42"                          -> "EMPRESA_CERRADA"
    [] exc = "93"                          -> "NO_SE_PUDO_RECOLECTAR_EL_COBRO"
    [] OTHER                               -> NoStatus

LegacyOfDerived(code) ==
  CASE code = "DL"                                -> "ENTREGADO"
    [] code \in {"PU", "OC"}                      -> "RECOLECCION"
    [] code \in {"FD", "IT", "OW", "HL", "DE", "IN"} -> "PENDIENTE"
    [] code \in {"DU", "SE"}                      -> "NO_ENTREGADO"
    [] code = "TA"                                -> "DIRECCION_INCORRECTA"
    [] code = "OD"                                -> "ACARGO_DE_FEDEX"
    [] code = "RF"                                -> "RECHAZADO"
    [] OTHER                                      -> "DESCONOCIDO"

mapFedexStatusToLocalStatus(code, exc) ==
  IF LegacyOfException(exc) # NoStatus THEN LegacyOfException(exc) ELSE LegacyOfDerived(code)

-----------------------------------------------------------------------------
(* The canonical table of the tracking-sync engine: DL wins over every     *)
(* exception, then a known exception, then the derived code.               *)
CanonicalOfException(exc) ==
  CASE exc = "07"                          -> "RECHAZADO"
    [] exc \in {"08", "72"}                -> "CLIENTE_NO_DISPONIBLE"
    [] exc = "67"                          -> "EN_BODEGA"
    [] exc \in {"03", "A12", "A13"}        -> "DIRECCION_INCORRECTA"
    [] exc = "05"                          -> "RESTRICCION_SEGURIDAD_UBICACION"
    [] exc \in {"15", "64"}                -> "ESTACION_FEDEX"
    [] exc \in {"14", "086C"}              -> "RETORNO_ABANDONO_FEDEX"
    [] exc = "17"                          -> "CAMBIO_FECHA_SOLICITADO"
    [] exc = "84"                          -> "DEMORA_EN_ENTREGA"
    [] exc = "31"                          -> "LLEGADO_DESPUES"
    [] exc = "42"                          -> "EMPRESA_CERRADA"
    [] exc = "93"                          -> "NO_SE_PUDO_RECOLECTAR_EL_COBRO"
    [] exc = "OD"                          -> "ACARGO_DE_FEDEX"
    [] OTHER                               -> NoStatus

CanonicalOfDerived(code) ==
  CASE code = "DL"                                             -> "ENTREGADO"
    [] code \in {"IT", "OD", "AR", "DP", "AF", "AP", "DP_HUB"} -> "EN_RUTA"
    [] code = "PU"                                             -> "RECOLECCION"
    [] code \in {"RS", "RT", "RR"}                             -> "DEVUELTO_A_FEDEX"
    [] code = "HL"                                             -> "ESTACION_FEDEX"
    [] code \in {"DE", "SE"}                                   -> "NO_ENTREGADO"
    [] code = "DY"                                             -> "DEMORA_EN_ENTREGA"
    [] code = "CA"                                             -> "OTRO"
    [] code = "OC"                                             -> "PENDIENTE"
    [] OTHER                                                   -> NoStatus

(* Nothing known of the codes is DESCONOCIDO, here and in the normalizer's *)
(* default for an event with no code at all.                               *)
resolveCanonicalStatus(code, exc) ==
  CASE code = "DL"                            -> "ENTREGADO"
    [] code # "DL" /\ CanonicalOfException(exc) # NoStatus -> CanonicalOfException(exc)
    [] code # "DL" /\ CanonicalOfException(exc) = NoStatus
         /\ CanonicalOfDerived(code) # NoStatus -> CanonicalOfDerived(code)
    [] OTHER                                  -> "DESCONOCIDO"
=============================================================================
