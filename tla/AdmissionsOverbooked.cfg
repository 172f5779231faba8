\* A conversion that outlives its reservation.
CONSTANTS
    Requests = {r1, r2}
    Applications = {a1, a2}
    Stages = {}
    Outcomes = {"accepted"}
    MaxReviews = 0
    MaxCapacity = 1
    Nothing = Nothing
SPECIFICATION Spec
PROPERTIES
    QuotaLimitsSeats
