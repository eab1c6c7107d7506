------------------------------ MODULE Answers ------------------------------
(***************************************************************************)
(* What a client is told: the exceptions the back end raises, the handler  *)
(* that turns each of them into an HTTP status, and the page arithmetic of *)
(* the list responses.                                                     *)
(***************************************************************************)
EXTENDS Integers

\* Exception classes of the application, with the code each of them carries.
DefaultCode ==
    [ERPBaseException                  |-> "INTERNAL_ERROR",
     ResourceNotFoundException         |-> "RESOURCE_NOT_FOUND",
     ConflictException                 |-> "CONFLICT",
     ValidationException               |-> "VALIDATION_ERROR",
     BusinessRuleViolationException    |-> "BUSINESS_RULE_VIOLATION",
     InsufficientStockException        |-> "INSUFFICIENT_STOCK",
     StockReservationExpiredException  |-> "RESERVATION_EXPIRED",
     UnauthorizedException             |-> "UNAUTHORIZED",
     TokenExpiredException             |-> "TOKEN_EXPIRED",
     ForbiddenException                |-> "FORBIDDEN",
     ExternalServiceException          |-> "EXTERNAL_SERVICE_ERROR"]

\* The statuses the handler of ERPBaseException knows; any other code is a 400.
StatusCodeMap ==
    [RESOURCE_NOT_FOUND |-> 404, CONFLICT |-> 409, VALIDATION_ERROR |-> 422,
     BUSINESS_RULE_VIOLATION |-> 422, INSUFFICIENT_STOCK |-> 409,
     RESERVATION_EXPIRED |-> 409, UNAUTHORIZED |-> 401, TOKEN_EXPIRED |-> 401,
     FORBIDDEN |-> 403, EXTERNAL_SERVICE_ERROR |-> 503]

\* Mutant: the table of statuses is never consulted.
StatusUnmapped(code) == 400

StatusOfCode(code) ==
    IF code \in DOMAIN StatusCodeMap THEN StatusCodeMap[code] ELSE 400

\* The handlers of the classes that are not the application's own.
HandlerStatus == [RequestValidationError |-> 422, JWTError |-> 401]

\* The status an exception is answered with; whatever no handler names is a 500.
StatusOf(e) ==
    IF e \in DOMAIN DefaultCode THEN StatusOfCode(DefaultCode[e])
    ELSE IF e \in DOMAIN HandlerStatus THEN HandlerStatus[e] ELSE 500

\* A response to a request whose connection broke: none.
NoAnswer == 0

OK == 200
CREATED == 201

-----------------------------------------------------------------------------
(* Pages: offset and limit of the query, and the metadata of the answer.   *)

PageOffset(page, limit) == (page - 1) * limit

PaginationMeta(page, limit, total) ==
    LET ceil == (total + limit - 1) \div limit
        pages == IF ceil < 1 THEN 1 ELSE ceil
    IN  [page |-> page, total |-> total, total_pages |-> pages,
         has_next |-> page < pages, has_previous |-> page > 1]

=============================================================================
