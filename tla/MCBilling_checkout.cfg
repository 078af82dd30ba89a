SPECIFICATION Spec
CONSTANTS
  Users = {u1}
  SubIds = {x1, x2}
  InvIds = {i1, i2}
  Sessions = {s1}
  Events = {e1, e2}
  Plans = {"free", "pro"}
  Tier <- MCTier
  Price <- MCPrice
  StripeStatuses = {"past_due"}
  RefundAmounts <- MCRefunds
  CreditAmounts = {1}
  MaxCards = 3
  MaxCredit = 1
  MaxRefund = 2
  Absent = Absent
PROPERTIES CheckoutGrantsPlan
CHECK_DEADLOCK FALSE
